---- MODULE Spec2Model ----
(***************************************************************************)
(* A model of shipkey: the configuration merger and the setup command, the *)
(* two secret backends (1Password, driven through `op`; Bitwarden, driven  *)
(* through `bw`) with their store encodings, the sync command's secret     *)
(* resolution and the dotenv line parser.                                  *)
(*                                                                         *)
(* Text whose characters matter (project, env, field, attribute names,     *)
(* dotenv values) is a sequence of one-character strings; names that the   *)
(* code only compares for equality (vaults, providers, backends) are       *)
(* strings.  A JavaScript object with optional properties is a function    *)
(* whose domain holds exactly the properties that are present.             *)
(***************************************************************************)
EXTENDS Naturals, Sequences, FiniteSets, TLC

VARIABLES
    \* ---- mergeConfigs applied to drawn inputs
    mExisting,      \* the `existing` argument
    mScanned,       \* the `scanned` argument
    mOnce,          \* mergeConfigs(existing, scanned), once computed
    mTwice,         \* mergeConfigs(mOnce, scanned), once computed
    mSelf,          \* mergeConfigs(existing, existing), once computed
    \* ---- the setup command
    shipkeyJson,    \* the project's shipkey.json: absent, or its parsed content
    setupOriginal,  \* shipkey.json as it was when setup started
    scanResult,     \* result.config of scanProject
    setupPc,        \* "start", "serving", "stopped"
    setupBackend,   \* the backend instance setup handed to its server
    setupOps,       \* backends on which the server ran a store operation
    \* ---- Bitwarden's attribute-name encoding
    cRef,           \* the (project, env, field) of a ref
    cName,          \* buildFieldName(ref), once computed
    cParsed,        \* parseFieldName(cName), once computed
    \* ---- the dotenv parser
    dValue,         \* the text written after "KEY=" on the line
    dContent,       \* the file content handed to parseDotenv
    dParsed,        \* parseDotenv(dContent), once computed
    \* ---- a secret store and the backend operations run on it
    backendName,    \* "1password" or "bitwarden": the backend in use
    store,          \* the store: its vaults (folders) and its items
    lastOp,         \* the last finished operation, with the store it started from
    opCount,        \* operations run so far
    \* ---- two clients writing to one store at the same time
    concBackend,    \* the backend both clients use
    concBefore,     \* the store as it was before the two writes started
    concStore,      \* the store the two clients share
    clients,        \* per client, the write it runs and the command it is at
    \* ---- the sync command
    syncConfig,     \* the parsed shipkey.json sync loads
    syncStore,      \* the store of the configured backend
    syncPc,         \* "start", "done"
    syncReport,     \* what sync handed to the targets and what it reported
    \* ---- the scanner run on a directory tree
    scanTree,       \* the directory scan is given, as readdir and readFile see it
    scanOut,         \* scan's result or the error it raised, once it ran
    \* ---- writeLocalEnv applied to a project directory
    localWrangler,
    localFiles,
    localEnvVars,
    localRuns,
    \* ---- guessProvider and groupByProvider applied to env keys
    gKeys,
    gGuess,
    gGroups,
    \* ---- checkStatus and isAvailable run against a command-line client
    pBackend,
    pCli,
    pStatus,
    pAvailable,
    \* ---- getBackend and listBackends called by name
    bCalls,
    bListed,
    \* ---- buildSecretRefMap applied to a drawn configuration
    rConfig,
    rBackend,
    rEnv,
    rMap,
    \* ---- push and the setup page's push and store handlers
    pushDir,
    pushJson,
    pushFailing,
    pushStore,
    pushOut

mergeVars == <<mExisting, mScanned, mOnce, mTwice, mSelf>>
setupVars == <<shipkeyJson, setupOriginal, scanResult, setupPc, setupBackend, setupOps>>
codecVars == <<cRef, cName, cParsed>>
dotenvVars == <<dValue, dContent, dParsed>>
storeVars == <<backendName, store, lastOp, opCount>>
concVars == <<concBackend, concBefore, concStore, clients>>
syncVars == <<syncConfig, syncStore, syncPc, syncReport>>
scanVars == <<scanTree, scanOut>>
localVars == <<localWrangler, localFiles, localEnvVars, localRuns>>
groupVars == <<gKeys, gGuess, gGroups>>
probeVars == <<pBackend, pCli, pStatus, pAvailable>>
registryVars == <<bCalls, bListed>>
refsVars == <<rConfig, rBackend, rEnv, rMap>>
pushVars == <<pushDir, pushJson, pushFailing, pushStore, pushOut>>
vars == <<mergeVars, setupVars, codecVars, dotenvVars, storeVars, concVars, syncVars, scanVars, localVars, groupVars, probeVars, registryVars, refsVars, pushVars>>

\* What the actions of one part leave alone: the variables of the other parts.
mergeOthers == <<setupVars, codecVars, dotenvVars, storeVars, concVars, syncVars, scanVars, localVars, groupVars, probeVars, registryVars, refsVars, pushVars>>
setupOthers == <<mergeVars, codecVars, dotenvVars, storeVars, concVars, syncVars, scanVars, localVars, groupVars, probeVars, registryVars, refsVars, pushVars>>
codecOthers == <<mergeVars, setupVars, dotenvVars, storeVars, concVars, syncVars, scanVars, localVars, groupVars, probeVars, registryVars, refsVars, pushVars>>
dotenvOthers == <<mergeVars, setupVars, codecVars, storeVars, concVars, syncVars, scanVars, localVars, groupVars, probeVars, registryVars, refsVars, pushVars>>
storeOthers == <<mergeVars, setupVars, codecVars, dotenvVars, concVars, syncVars, scanVars, localVars, groupVars, probeVars, registryVars, refsVars, pushVars>>
concOthers == <<mergeVars, setupVars, codecVars, dotenvVars, storeVars, syncVars, scanVars, localVars, groupVars, probeVars, registryVars, refsVars, pushVars>>
syncOthers == <<mergeVars, setupVars, codecVars, dotenvVars, storeVars, concVars, scanVars, localVars, groupVars, probeVars, registryVars, refsVars, pushVars>>
scanOthers == <<mergeVars, setupVars, codecVars, dotenvVars, storeVars, concVars, syncVars, localVars, groupVars, probeVars, registryVars, refsVars, pushVars>>
localOthers == <<mergeVars, setupVars, codecVars, dotenvVars, storeVars, concVars, syncVars, scanVars, groupVars, probeVars, registryVars, refsVars, pushVars>>
groupOthers == <<mergeVars, setupVars, codecVars, dotenvVars, storeVars, concVars, syncVars, scanVars, localVars, probeVars, registryVars, refsVars, pushVars>>
probeOthers == <<mergeVars, setupVars, codecVars, dotenvVars, storeVars, concVars, syncVars, scanVars, localVars, groupVars, registryVars, refsVars, pushVars>>
registryOthers == <<mergeVars, setupVars, codecVars, dotenvVars, storeVars, concVars, syncVars, scanVars, localVars, groupVars, probeVars, refsVars, pushVars>>
refsOthers == <<mergeVars, setupVars, codecVars, dotenvVars, storeVars, concVars, syncVars, scanVars, localVars, groupVars, probeVars, registryVars, pushVars>>
pushOthers == <<mergeVars, setupVars, codecVars, dotenvVars, storeVars, concVars, syncVars, scanVars, localVars, groupVars, probeVars, registryVars, refsVars>>

-----------------------------------------------------------------------------
(* Optional values and objects with optional properties.                   *)

Absent == [has |-> FALSE]
Some(v) == [has |-> TRUE, v |-> v]

\* The object holding property k with value opts[k].v for each k that is present.
MkObject(opts) == [k \in {j \in DOMAIN opts : opts[j].has} |-> opts[k].v]

\* A property read: undefined (Absent) when the object has no such property.
Get(obj, k) == IF k \in DOMAIN obj THEN Some(obj[k]) ELSE Absent

\* JavaScript truthiness of an optional string: undefined and "" are falsy.
TruthyStr(o) == o.has /\ o.v # ""

EmptyMap == [k \in {} |-> TRUE]

\* [...new Set(s)]: the first occurrence of every element, in order.
RECURSIVE Dedupe(_)
Dedupe(s) ==
    IF s = <<>> THEN <<>>
    ELSE LET front == Dedupe(SubSeq(s, 1, Len(s) - 1))
             last == s[Len(s)]
         IN  IF \E i \in 1..Len(front) : front[i] = last
             THEN front ELSE Append(front, last)

Range(s) == {s[i] : i \in 1..Len(s)}

-----------------------------------------------------------------------------
(* Text as sequences of characters, with JavaScript's string methods.      *)
(* Positions are counted from 1; 0 stands for JavaScript's -1.             *)

\* s.indexOf(c)
IndexOf(s, c) ==
    IF \E i \in 1..Len(s) : s[i] = c
    THEN CHOOSE i \in 1..Len(s) : s[i] = c /\ \A j \in 1..(i - 1) : s[j] # c
    ELSE 0

\* s.lastIndexOf(c)
LastIndexOf(s, c) ==
    IF \E i \in 1..Len(s) : s[i] = c
    THEN CHOOSE i \in 1..Len(s) : s[i] = c /\ \A j \in (i + 1)..Len(s) : s[j] # c
    ELSE 0

\* s.slice(0, i - 1) and s.slice(i), for the character at position i
Before(s, i) == SubSeq(s, 1, i - 1)
After(s, i) == SubSeq(s, i + 1, Len(s))

IsSpace(c) == c \in {" ", "\t", "\r", "\n"}

\* s.trim()
RECURSIVE TrimStart(_)
TrimStart(s) == IF s # <<>> /\ IsSpace(s[1]) THEN TrimStart(Tail(s)) ELSE s
RECURSIVE TrimEnd(_)
TrimEnd(s) == IF s # <<>> /\ IsSpace(s[Len(s)]) THEN TrimEnd(SubSeq(s, 1, Len(s) - 1)) ELSE s
Trim(s) == TrimEnd(TrimStart(s))

\* s.startsWith(c), s.endsWith(c) for a one-character c
StartsWith(s, c) == s # <<>> /\ s[1] = c
EndsWith(s, c) == s # <<>> /\ s[Len(s)] = c

\* s.split(c)
RECURSIVE Split(_, _)
Split(s, c) ==
    LET i == IndexOf(s, c)
    IN  IF i = 0 THEN <<s>> ELSE <<Before(s, i)>> \o Split(After(s, i), c)

\* All texts over an alphabet with lengths lo..hi.
Texts(alphabet, lo, hi) == UNION {[1..n -> alphabet] : n \in lo..hi}

-----------------------------------------------------------------------------
(* ShipkeyConfig and mergeConfigs.                                         *)

\* string[] | Record<string, string>, told apart by Array.isArray.
Arr(items) == [kind |-> "array", items |-> items]
Obj(map) == [kind |-> "object", map |-> map]
IsArray(v) == v.kind = "array"

TargetKeys == <<"github", "cloudflare">>

\* The both-exist branch with the two field lists joined and never deduplicated.
mergeProviderBothConcat(ep, sp) ==
    MkObject([
        fields |-> Some(ep.fields \o sp.fields),
        guide_url |-> IF TruthyStr(Get(ep, "guide_url")) THEN Some(ep.guide_url) ELSE Absent,
        guide |-> IF TruthyStr(Get(ep, "guide")) THEN Some(ep.guide) ELSE Absent,
        permissions |-> IF "permissions" \in DOMAIN sp /\ Len(sp.permissions) > 0
                        THEN Some(sp.permissions) ELSE Absent])

\* Both providers exist: fields are united, the guide is kept from existing when
\* truthy, permissions are taken from the scan when it has any.
mergeProviderBoth(ep, sp) ==
    MkObject([
        fields |-> Some(Dedupe(ep.fields \o sp.fields)),
        guide_url |-> IF TruthyStr(Get(ep, "guide_url")) THEN Some(ep.guide_url) ELSE Absent,
        guide |-> IF TruthyStr(Get(ep, "guide")) THEN Some(ep.guide) ELSE Absent,
        permissions |-> IF "permissions" \in DOMAIN sp /\ Len(sp.permissions) > 0
                        THEN Some(sp.permissions) ELSE Absent])

mergeProviders(existing, scanned) ==
    LET existingProviders == IF "providers" \in DOMAIN existing THEN existing.providers ELSE EmptyMap
        scannedProviders == IF "providers" \in DOMAIN scanned THEN scanned.providers ELSE EmptyMap
        allNames == DOMAIN existingProviders \cup DOMAIN scannedProviders
        mergedProviders ==
            [name \in allNames |->
                IF name \in DOMAIN existingProviders /\ name \in DOMAIN scannedProviders
                THEN mergeProviderBoth(existingProviders[name], scannedProviders[name])
                ELSE IF name \in DOMAIN existingProviders
                THEN existingProviders[name]
                ELSE scannedProviders[name]]
    IN  IF allNames # {} THEN Some(mergedProviders) ELSE Absent

\* One platform's destinations with sKeys || eKeys where the code has
\* eKeys || sKeys.
mergeTargetScanFirst(existingTarget, scannedTarget) ==
    [dest \in DOMAIN existingTarget \cup DOMAIN scannedTarget |->
        IF /\ dest \in DOMAIN existingTarget
           /\ dest \in DOMAIN scannedTarget
           /\ IsArray(existingTarget[dest])
           /\ IsArray(scannedTarget[dest])
        THEN Arr(Dedupe(existingTarget[dest].items \o scannedTarget[dest].items))
        ELSE IF dest \in DOMAIN scannedTarget
        THEN scannedTarget[dest]
        ELSE existingTarget[dest]]

\* One platform's destinations: two arrays are united, otherwise eKeys || sKeys.
mergeTarget(existingTarget, scannedTarget) ==
    [dest \in DOMAIN existingTarget \cup DOMAIN scannedTarget |->
        IF /\ dest \in DOMAIN existingTarget
           /\ dest \in DOMAIN scannedTarget
           /\ IsArray(existingTarget[dest])
           /\ IsArray(scannedTarget[dest])
        THEN Arr(Dedupe(existingTarget[dest].items \o scannedTarget[dest].items))
        ELSE IF dest \in DOMAIN existingTarget
        THEN existingTarget[dest]
        ELSE scannedTarget[dest]]

\* The targets merged only `if (et && st)`, where the code has `if (et || st)`.
mergeTargetsWhenBoth(existing, scanned) ==
    LET et == Get(existing, "targets")
        st == Get(scanned, "targets")
        side(t, key) == IF t.has /\ key \in DOMAIN t.v THEN t.v[key] ELSE EmptyMap
        kept == {i \in 1..Len(TargetKeys) :
                    DOMAIN side(et, TargetKeys[i]) \cup DOMAIN side(st, TargetKeys[i]) # {}}
        mergedTargets ==
            [key \in {TargetKeys[i] : i \in kept} |->
                mergeTarget(side(et, key), side(st, key))]
    IN  IF (et.has /\ st.has) /\ kept # {} THEN Some(mergedTargets) ELSE Absent

mergeTargets(existing, scanned) ==
    LET et == Get(existing, "targets")
        st == Get(scanned, "targets")
        side(t, key) == IF t.has /\ key \in DOMAIN t.v THEN t.v[key] ELSE EmptyMap
        kept == {i \in 1..Len(TargetKeys) :
                    DOMAIN side(et, TargetKeys[i]) \cup DOMAIN side(st, TargetKeys[i]) # {}}
        mergedTargets ==
            [key \in {TargetKeys[i] : i \in kept} |->
                mergeTarget(side(et, key), side(st, key))]
    IN  IF (et.has \/ st.has) /\ kept # {} THEN Some(mergedTargets) ELSE Absent

\* The merged object with the identity the scan detected.
mergeConfigsScanIdentity(existing, scanned) ==
    MkObject([
        project |-> Some(scanned.project),
        vault |-> Some(scanned.vault),
        providers |-> mergeProviders(existing, scanned),
        targets |-> mergeTargets(existing, scanned)])

\* The merged object is built from project and vault only; providers and targets
\* are added when non-empty.  No other property of existing is copied.
mergeConfigs(existing, scanned) ==
    MkObject([
        project |-> Some(existing.project),
        vault |-> Some(existing.vault),
        providers |-> mergeProviders(existing, scanned),
        targets |-> mergeTargets(existing, scanned)])

-----------------------------------------------------------------------------
(* The configurations the merger is applied to.                            *)

MaxFields == 2

FieldNames == {"API_KEY", "DB_URL"}
ProviderNames == {"OpenAI", "General"}
Permission == [permission |-> "read", source |-> "package.json"]

\* Lists without repetition, as ProviderConfig.fields is kept.
FieldLists ==
    {s \in UNION {[1..n -> FieldNames] : n \in 1..MaxFields} :
        \A i, j \in 1..Len(s) : i # j => s[i] # s[j]}

ProviderConfigs ==
    {MkObject([fields |-> Some(f), guide_url |-> gu, guide |-> Absent, permissions |-> p]) :
        f \in FieldLists,
        gu \in {Absent, Some(""), Some("https://platform.openai.com/api-keys")},
        p \in {Absent, Some(<<>>), Some(<<Permission>>)}}

\* A hand-written provider entry, with a guide text.
GuidedConfigs ==
    {MkObject([fields |-> Some(<<"DB_URL">>), guide_url |-> Absent, guide |-> g,
               permissions |-> Absent]) : g \in {Some(""), Some("ask the DBA")}}

ProviderMaps ==
    {EmptyMap}
    \cup {[n \in {"OpenAI"} |-> c] : c \in ProviderConfigs}
    \cup {[n \in {"General"} |-> g] : g \in GuidedConfigs}
    \cup {[n \in ProviderNames |-> IF n = "OpenAI" THEN c ELSE g] :
            c \in ProviderConfigs, g \in {h \in GuidedConfigs : h.guide # ""}}

TargetValues ==
    {Arr(f) : f \in FieldLists} \cup {Arr(<<>>)}
    \cup {Obj([n \in {"API_KEY"} |-> "op://shipkey/OpenAI/app-prod/API_KEY"])}

TargetMaps ==
    {EmptyMap, [k \in {"github"} |-> EmptyMap]}
    \cup {[k \in {"github"} |-> [d \in {"owner/repo"} |-> v]] : v \in TargetValues}
    \cup {[k \in {"cloudflare"} |-> [d \in {"worker"} |-> v]] : v \in TargetValues}
    \cup {[k \in {"github"} |-> [d \in {"owner/other"} |-> Arr(<<"DB_URL">>)]]}

Identities == {[project |-> "app", vault |-> "shipkey"], [project |-> "other", vault |-> "team"]}
BackendNames == {"1password", "bitwarden"}
BackendOpts == {Absent} \cup {Some(b) : b \in BackendNames}

MkConfig(id, b, p, t) ==
    MkObject([project |-> Some(id.project), vault |-> Some(id.vault),
              backend |-> b, providers |-> p, targets |-> t])

\* Configurations rich in providers, and configurations rich in targets.
ConfigsOf(ids, backends) ==
    {MkConfig(id, b, p, Absent) :
        id \in ids, b \in backends, p \in {Absent} \cup {Some(m) : m \in ProviderMaps}}
    \cup {MkConfig(id, b, p, Some(t)) :
        id \in ids, b \in backends, t \in TargetMaps,
        p \in {Absent, Some([n \in {"OpenAI"} |-> [fields |-> <<"API_KEY">>]])}}

\* The persisted configurations of project "app".
Configs == ConfigsOf({[project |-> "app", vault |-> "shipkey"]}, BackendOpts)

\* Scanned configurations: mergeConfigs reads neither their backend nor their
\* identity, which scanProject sets from package.json or the directory name.
ScannedConfigs == ConfigsOf(Identities, {Absent})

\* What scanProject builds: providers always present.
ScanResults == {c \in ScannedConfigs : "providers" \in DOMAIN c}

NotYet == [done |-> FALSE]
Done(v) == [done |-> TRUE, v |-> v]

MergeInputs ==
    /\ mExisting \in Configs
    /\ mScanned \in ScannedConfigs
    /\ mOnce = NotYet
    /\ mTwice = NotYet
    /\ mSelf = NotYet

MergeIdle ==
    /\ mExisting = [project |-> "app", vault |-> "shipkey"]
    /\ mScanned = [project |-> "app", vault |-> "shipkey"]
    /\ mOnce = NotYet
    /\ mTwice = NotYet
    /\ mSelf = NotYet

\* mergeConfigs(existing, scanned)
MergeOnce ==
    /\ ~mOnce.done
    /\ mOnce' = Done(mergeConfigs(mExisting, mScanned))
    /\ UNCHANGED <<mExisting, mScanned, mTwice, mSelf, mergeOthers>>

\* mergeConfigs(mergeConfigs(existing, scanned), scanned)
MergeTwice ==
    /\ mOnce.done
    /\ ~mTwice.done
    /\ mTwice' = Done(mergeConfigs(mOnce.v, mScanned))
    /\ UNCHANGED <<mExisting, mScanned, mOnce, mSelf, mergeOthers>>

\* mergeConfigs(existing, existing)
MergeSelf ==
    /\ ~mSelf.done
    /\ mSelf' = Done(mergeConfigs(mExisting, mExisting))
    /\ UNCHANGED <<mExisting, mScanned, mOnce, mTwice, mergeOthers>>


-----------------------------------------------------------------------------
(* The setup command and the server it starts.                             *)

NoFile == [present |-> FALSE]
File(cfg) == [present |-> TRUE, cfg |-> cfg]

BACKENDS == <<"1password", "bitwarden">>

\* BACKENDS is an object literal: BACKENDS[name] finds its own two factories
\* and, for any other name, what Object.prototype holds under that name:
\* functions such as constructor and toString, and the prototype object
\* itself under __proto__.
InheritedFunctions == {"constructor", "toString"}
InheritedObjects == {"__proto__"}

Own(name) == [kind |-> "own", name |-> name]
Inherited(kind, name) == [kind |-> kind, name |-> name]
Undefined == [kind |-> "undefined"]

\* BACKENDS[name]
BackendsAt(name) ==
    IF name \in Range(BACKENDS) THEN Own(name)
    ELSE IF name \in InheritedFunctions THEN Inherited("function", name)
    ELSE IF name \in InheritedObjects THEN Inherited("object", name)
    ELSE Undefined

\* getBackend(name = "1password"): the factory's backend, or the thrown error.
\* An inherited function is truthy and is called as the factory; an inherited
\* object is truthy and calling it is a TypeError.
getBackend(name) ==
    LET n == IF name.has THEN name.v ELSE "1password"
        factory == BackendsAt(n)
    IN  IF factory.kind = "undefined"
        THEN [ok |-> FALSE, error |-> "Unknown backend", available |-> BACKENDS]
        ELSE IF factory.kind = "own" THEN [ok |-> TRUE, backend |-> n]
        ELSE IF factory.kind = "function" THEN [ok |-> TRUE, backend |-> "none"]
        ELSE [ok |-> FALSE, error |-> "TypeError", available |-> <<>>]

\* listBackends()
listBackends == BACKENDS

SetupStart ==
    /\ shipkeyJson \in {NoFile} \cup {File(c) : c \in Configs}
    /\ setupOriginal = shipkeyJson
    /\ scanResult \in ScanResults
    /\ setupPc = "start"
    /\ setupBackend = "none"
    /\ setupOps = {}

SetupIdle ==
    /\ shipkeyJson = NoFile
    /\ setupOriginal = NoFile
    /\ scanResult = [project |-> "app", vault |-> "shipkey", providers |-> EmptyMap]
    /\ setupPc = "stopped"
    /\ setupBackend = "none"
    /\ setupOps = {}

\* setupCommand's action: scan, merge with the existing shipkey.json when there is
\* one, write the result back, build the backend from the written configuration
\* and start the server with it.
setupCommand ==
    /\ setupPc = "start"
    /\ LET config == IF shipkeyJson.present
                     THEN mergeConfigs(shipkeyJson.cfg, scanResult)
                     ELSE scanResult
           backend == getBackend(Get(config, "backend"))
       IN  /\ shipkeyJson' = File(config)
           /\ IF backend.ok
              THEN setupPc' = "serving" /\ setupBackend' = backend.backend
              ELSE setupPc' = "stopped" /\ setupBackend' = "none"
    /\ UNCHANGED <<setupOriginal, scanResult, setupOps, setupOthers>>

\* /api/status, /api/push, /api/store, /api/sync: each handler reloads
\* shipkey.json and runs its reads and writes on the backend startServer was given.
serverStoreOperation ==
    /\ setupPc = "serving"
    /\ setupOps' = setupOps \cup {setupBackend}
    /\ UNCHANGED <<shipkeyJson, setupOriginal, scanResult, setupPc, setupBackend, setupOthers>>

\* SIGINT
serverStop ==
    /\ setupPc = "serving"
    /\ setupPc' = "stopped"
    /\ UNCHANGED <<shipkeyJson, setupOriginal, scanResult, setupBackend, setupOps, setupOthers>>

-----------------------------------------------------------------------------
(* Bitwarden's custom-field names: "project-env.FIELD".                    *)

Null == [null |-> TRUE]

\* sectionName(project, env): `${project}-${env}`
sectionName(project, env) == project \o <<"-">> \o env

\* buildFieldName(ref): `${section}.${ref.field}`
buildFieldName(ref) == sectionName(ref.project, ref.env) \o <<".">> \o ref.field

\* parseFieldName with the section split at its first "-".
parseFieldNameFirstDash(fieldName) ==
    LET dotIndex == IndexOf(fieldName, ".")
        section == Before(fieldName, dotIndex)
        field == After(fieldName, dotIndex)
        dashIndex == IndexOf(section, "-")
    IN  IF dotIndex = 0 THEN Null
        ELSE IF dashIndex = 0 THEN Null
        ELSE [project |-> Before(section, dashIndex),
              env |-> After(section, dashIndex),
              field |-> field]

\* parseFieldName(fieldName): split at the first ".", then the section at its last "-".
parseFieldName(fieldName) ==
    LET dotIndex == IndexOf(fieldName, ".")
        section == Before(fieldName, dotIndex)
        field == After(fieldName, dotIndex)
        dashIndex == LastIndexOf(section, "-")
    IN  IF dotIndex = 0 THEN Null
        ELSE IF dashIndex = 0 THEN Null
        ELSE [project |-> Before(section, dashIndex),
              env |-> After(section, dashIndex),
              field |-> field]

MaxNameLen == 3

\* Names of letters, "-" and ".", beginning and ending with a letter.
NameChars == {"a", "-", "."}
Names == {n \in Texts(NameChars, 1, MaxNameLen) : n[1] = "a" /\ n[Len(n)] = "a"}

CodecInputs ==
    /\ cRef \in [project : Names, env : Names, field : Names]
    /\ cName = NotYet
    /\ cParsed = NotYet

CodecIdle ==
    /\ cRef = [project |-> <<"a">>, env |-> <<"a">>, field |-> <<"a">>]
    /\ cName = NotYet
    /\ cParsed = NotYet

Encode ==
    /\ ~cName.done
    /\ cName' = Done(buildFieldName(cRef))
    /\ UNCHANGED <<cRef, cParsed, codecOthers>>

Decode ==
    /\ cName.done
    /\ ~cParsed.done
    /\ cParsed' = Done(parseFieldName(cName.v))
    /\ UNCHANGED <<cRef, cName, codecOthers>>

\* parseFieldName applied to the name of any stored attribute, as list does.
MaxAttrLen == 7
AttrNames == Texts(NameChars, 0, MaxAttrLen)

AttrInputs ==
    /\ cRef = [project |-> <<"a">>, env |-> <<"a">>, field |-> <<"a">>]
    /\ cName \in {Done(n) : n \in AttrNames}
    /\ cParsed = NotYet

-----------------------------------------------------------------------------
(* parseDotenv.                                                            *)

\* The loop body with the line split at its last "=".
parseLineLastEq(rawLine) ==
    LET line == Trim(rawLine)
        eqIndex == LastIndexOf(line, "=")
        key == Trim(Before(line, eqIndex))
        value == Trim(After(line, eqIndex))
        stripped ==
            IF \/ StartsWith(value, "\"") /\ EndsWith(value, "\"")
               \/ StartsWith(value, "'") /\ EndsWith(value, "'")
            THEN SubSeq(value, 2, Len(value) - 1)
            ELSE value
    IN  IF line = <<>> \/ StartsWith(line, "#") THEN <<>>
        ELSE IF eqIndex = 0 THEN <<>>
        ELSE <<[key |-> key, value |-> stripped]>>

\* One line of the loop body: nothing for a blank line, a comment or a line
\* without "=", else the entry with its surrounding quotes stripped.
parseLine(rawLine) ==
    LET line == Trim(rawLine)
        eqIndex == IndexOf(line, "=")
        key == Trim(Before(line, eqIndex))
        value == Trim(After(line, eqIndex))
        stripped ==
            IF \/ StartsWith(value, "\"") /\ EndsWith(value, "\"")
               \/ StartsWith(value, "'") /\ EndsWith(value, "'")
            THEN SubSeq(value, 2, Len(value) - 1)
            ELSE value
    IN  IF line = <<>> \/ StartsWith(line, "#") THEN <<>>
        ELSE IF eqIndex = 0 THEN <<>>
        ELSE <<[key |-> key, value |-> stripped]>>

RECURSIVE parseLines(_)
parseLines(lines) ==
    IF lines = <<>> THEN <<>> ELSE parseLine(Head(lines)) \o parseLines(Tail(lines))

parseDotenv(content) == parseLines(Split(content, "\n"))

MaxValueLen == 4

ValueChars == {"s", " ", "\"", "'"}
EnvKey == <<"K", "E", "Y">>

DotenvInputs ==
    /\ dValue \in Texts(ValueChars, 0, MaxValueLen)
    /\ dContent = EnvKey \o <<"=">> \o dValue \o <<"\n">>
    /\ dParsed = NotYet

DotenvIdle ==
    /\ dValue = <<>>
    /\ dContent = <<>>
    /\ dParsed = NotYet

Parse ==
    /\ ~dParsed.done
    /\ dParsed' = Done(parseDotenv(dContent))
    /\ UNCHANGED <<dValue, dContent, dotenvOthers>>

-----------------------------------------------------------------------------
(* The secret stores.                                                      *)
(*                                                                         *)
(* Both command-line tools keep named containers (1Password vaults,        *)
(* Bitwarden folders) holding items (one per provider) that carry named    *)
(* fields.  A container's id is its position in `containers`, an item's id *)
(* its position in `items`; both tools list in creation order and neither  *)
(* refuses a second container or item of the same name.                    *)
(*                                                                         *)
(* A backend operation is a sequence of commands, each of which may fail   *)
(* (exec throws on a non-zero exit code).  An operation in progress is a   *)
(* record: what was asked, the command it is about to run (pc) and what it *)
(* has learned so far.  BwStep and OpStep run one command.                 *)

EmptyStore == [containers |-> <<>>, items |-> <<>>]

\* Positions of the containers named `name`, and of the items named `name` in
\* container `c`.
ContainersNamed(st, name) == {i \in 1..Len(st.containers) : st.containers[i] = name}
ItemsNamed(st, c, name) ==
    {i \in 1..Len(st.items) : st.items[i].container = c /\ st.items[i].name = name}
Min(S) == CHOOSE x \in S : \A y \in S : x <= y

\* fields.findIndex((f) => f.name === fieldName), 0 when there is none
FieldIndex(fields, name) ==
    IF \E i \in 1..Len(fields) : fields[i].name = name
    THEN Min({i \in 1..Len(fields) : fields[i].name = name})
    ELSE 0

\* Set the field's value in place, or push a new field.
Upsert(fields, name, value) ==
    LET i == FieldIndex(fields, name)
    IN  IF i # 0 THEN [fields EXCEPT ![i].value = value]
        ELSE Append(fields, [name |-> name, value |-> value])

\* findItem's null, and the result of an operation still running.
NoItem == [id |-> 0, fields |-> <<>>]
Pending == [ok |-> FALSE, value |-> "pending"]

StartOp(kind, ref, value, first) ==
    [kind |-> kind, ref |-> ref, value |-> value, pc |-> first,
     folderId |-> 0, item |-> NoItem, out |-> Pending]

Throw(p, message) == [p EXCEPT !.pc = "failed", !.out = [ok |-> FALSE, value |-> message]]
Return(p, value) == [p EXCEPT !.pc = "done", !.out = [ok |-> TRUE, value |-> value]]
Finished(p) == p.pc \in {"done", "failed"}

Outcome(p, st) == [p |-> p, st |-> st]

\* ---- Bitwarden

\* read: the custom field of the item found, or the thrown error.
BwReadField(p, item) ==
    IF item = NoItem
    THEN Throw(p, "Item not found in folder")
    ELSE LET i == FieldIndex(item.fields, buildFieldName(p.ref))
         IN  IF i = 0 THEN Throw(p, "Field not found in item")
             ELSE Return(p, item.fields[i].value)

\* One command of BitwardenBackend.read or .write.
\*   status       ensureUnlocked: bw status
\*   listFolders  findOrCreateFolder: bw list folders
\*   createFolder findOrCreateFolder: bw get template folder, bw create folder
\*   listItems    findItem: bw list items --folderid --search (a failure is caught)
\*   editItem     write: bw edit item <id> <the item as it was read, one field set>
\*   createItem   write: bw get template item, bw create item
BwStep(p, st, fail) ==
    CASE p.pc = "status" ->
            Outcome(IF fail THEN Throw(p, "bw command failed")
                    ELSE [p EXCEPT !.pc = "listFolders"], st)
      [] p.pc = "listFolders" ->
            LET existing == ContainersNamed(st, p.ref.vault)
            IN  Outcome(IF fail THEN Throw(p, "bw command failed")
                        ELSE IF existing # {}
                        THEN [p EXCEPT !.pc = "listItems", !.folderId = Min(existing)]
                        ELSE [p EXCEPT !.pc = "createFolder"], st)
      [] p.pc = "createFolder" ->
            IF fail THEN Outcome(Throw(p, "bw command failed"), st)
            ELSE Outcome([p EXCEPT !.pc = "listItems", !.folderId = Len(st.containers) + 1],
                         [st EXCEPT !.containers = Append(@, p.ref.vault)])
      [] p.pc = "listItems" ->
            LET found == ItemsNamed(st, p.folderId, p.ref.provider)
                item == IF fail \/ found = {} THEN NoItem
                        ELSE [id |-> Min(found), fields |-> st.items[Min(found)].fields]
            IN  Outcome(IF p.kind = "read" THEN BwReadField(p, item)
                        ELSE IF item # NoItem THEN [p EXCEPT !.pc = "editItem", !.item = item]
                        ELSE [p EXCEPT !.pc = "createItem"], st)
      [] p.pc = "editItem" ->
            IF fail THEN Outcome(Throw(p, "bw command failed"), st)
            ELSE Outcome(Return(p, "ok"),
                         [st EXCEPT !.items[p.item.id].fields =
                             Upsert(p.item.fields, buildFieldName(p.ref), p.value)])
      [] p.pc = "createItem" ->
            IF fail THEN Outcome(Throw(p, "bw command failed"), st)
            ELSE Outcome(Return(p, "ok"),
                         [st EXCEPT !.items = Append(@,
                             [container |-> p.folderId, name |-> p.ref.provider,
                              fields |-> <<[name |-> buildFieldName(p.ref),
                                            value |-> p.value]>>])])

\* ---- 1Password

\* `op` resolves a vault or an item given by name, and refuses a name that
\* matches none or more than one.
OpVault(st, name) ==
    LET found == ContainersNamed(st, name)
    IN  IF Cardinality(found) = 1 THEN Min(found) ELSE 0
OpItem(st, vault, title) ==
    LET v == OpVault(st, vault)
        found == ItemsNamed(st, v, title)
    IN  IF v # 0 /\ Cardinality(found) = 1 THEN Min(found) ELSE 0

\* op://vault/provider/section/field, kept as its four segments.
buildRef(ref) ==
    [vault |-> ref.vault, item |-> ref.provider,
     section |-> sectionName(ref.project, ref.env), field |-> ref.field]

\* `op read <uri>` when the command itself does not fail: the field's value,
\* or nothing when the vault, the item or the field is not found.
readRaw(st, opUri) ==
    LET item == OpItem(st, opUri.vault, opUri.item)
        i == IF item = 0 THEN 0
             ELSE FieldIndex(st.items[item].fields,
                             opUri.section \o <<".">> \o opUri.field)
    IN  IF i = 0 THEN Absent ELSE Some(st.items[item].fields[i].value)

\* One command of OnePasswordBackend.read or .write.
\*   read         op read op://vault/provider/section/field
\*   vaultGet     ensureVault: op vault get (a failure leads to vault create)
\*   vaultCreate  ensureVault: op vault create
\*   itemEdit     write: op item edit provider --vault ... (a failure leads to item create)
\*   itemCreate   write: op item create --vault ... --title provider ...
OpStep(p, st, fail) ==
    LET fieldKey == sectionName(p.ref.project, p.ref.env) \o <<".">> \o p.ref.field
        item == OpItem(st, p.ref.vault, p.ref.provider)
    IN  CASE p.pc = "read" ->
                LET found == readRaw(st, buildRef(p.ref))
                IN  Outcome(IF fail \/ found = Absent THEN Throw(p, "op command failed")
                            ELSE Return(p, found.v), st)
          [] p.pc = "vaultGet" ->
                Outcome(IF fail \/ OpVault(st, p.ref.vault) = 0
                        THEN [p EXCEPT !.pc = "vaultCreate"]
                        ELSE [p EXCEPT !.pc = "itemEdit"], st)
          [] p.pc = "vaultCreate" ->
                IF fail THEN Outcome(Throw(p, "op command failed"), st)
                ELSE Outcome([p EXCEPT !.pc = "itemEdit"],
                             [st EXCEPT !.containers = Append(@, p.ref.vault)])
          [] p.pc = "itemEdit" ->
                IF fail \/ item = 0 THEN Outcome([p EXCEPT !.pc = "itemCreate"], st)
                ELSE Outcome(Return(p, "ok"),
                             [st EXCEPT !.items[item].fields = Upsert(@, fieldKey, p.value)])
          [] p.pc = "itemCreate" ->
                IF fail \/ OpVault(st, p.ref.vault) = 0
                THEN Outcome(Throw(p, "op command failed"), st)
                ELSE Outcome(Return(p, "ok"),
                             [st EXCEPT !.items = Append(@,
                                 [container |-> OpVault(st, p.ref.vault),
                                  name |-> p.ref.provider,
                                  fields |-> <<[name |-> fieldKey, value |-> p.value]>>])])

\* ---- either backend

Step(backend, p, st, fail) ==
    IF backend = "bitwarden" THEN BwStep(p, st, fail) ELSE OpStep(p, st, fail)

\* read(ref) and write({ref, value}) as they start.
read(backend, ref) ==
    StartOp("read", ref, "", IF backend = "bitwarden" THEN "status" ELSE "read")
write(backend, entry) ==
    StartOp("write", entry.ref, entry.value,
            IF backend = "bitwarden" THEN "status" ELSE "vaultGet")

\* The longest operation runs five commands.
MaxCommands == 5

\* The operation run to its end with no other operation in between; its
\* failAt-th command fails (none when failAt is 0).
RECURSIVE RunFrom(_, _, _, _, _)
RunFrom(backend, p, st, failAt, k) ==
    IF Finished(p) THEN Outcome(p, st)
    ELSE LET o == Step(backend, p, st, k = failAt)
         IN  RunFrom(backend, o.p, o.st, failAt, k + 1)
Run(backend, p, st, failAt) == RunFrom(backend, p, st, failAt, 1)

\* What read(ref) answers on store st when no command fails: the value, or
\* nothing when it throws.
ReadValue(backend, st, ref) ==
    LET out == Run(backend, read(backend, ref), st, 0).p.out
    IN  IF out.ok THEN Some(out.value) ELSE Absent

\* ---- operations run one after the other

MaxOps == 3

Vaults == {"shipkey", "team"}
Providers == {"OpenAI", "Stripe"}
\* Projects and environments, some with a "-" in their name.
Sections == {[project |-> <<"a">>, env |-> <<"c">>],
             [project |-> <<"a">>, env |-> <<"b", "-", "c">>],
             [project |-> <<"a", "-", "b">>, env |-> <<"c">>]}
Refs ==
    {[vault |-> v, provider |-> pr, project |-> s.project, env |-> s.env,
      field |-> <<"K">>] : v \in Vaults, pr \in Providers, s \in Sections}
Values == {"sk-1", "sk-2"}
Entries == [ref : Refs, value : Values]

NoOp == [kind |-> "none"]

StoreStart ==
    /\ backendName \in BackendNames
    /\ store = EmptyStore
    /\ lastOp = NoOp
    /\ opCount = 0

StoreIdle ==
    /\ backendName = "1password"
    /\ store = EmptyStore
    /\ lastOp = NoOp
    /\ opCount = 0

Record(o, before, failAt) ==
    [kind |-> o.p.kind, ref |-> o.p.ref, value |-> o.p.value, failAt |-> failAt,
     ok |-> o.p.pc = "done", out |-> o.p.out, before |-> before]

\* backend.write(entry), from its first command to its return or its throw.
Write ==
    /\ opCount < MaxOps
    /\ \E entry \in Entries, failAt \in 0..MaxCommands :
          LET o == Run(backendName, write(backendName, entry), store, failAt)
          IN  /\ store' = o.st
              /\ lastOp' = Record(o, store, failAt)
    /\ opCount' = opCount + 1
    /\ UNCHANGED <<backendName, storeOthers>>

\* backend.read(ref), from its first command to its return or its throw.
Read ==
    /\ opCount < MaxOps
    /\ \E ref \in Refs, failAt \in 0..MaxCommands :
          LET o == Run(backendName, read(backendName, ref), store, failAt)
          IN  /\ store' = o.st
              /\ lastOp' = Record(o, store, failAt)
    /\ opCount' = opCount + 1
    /\ UNCHANGED <<backendName, storeOthers>>


\* ---- two writes run at the same time

Clients == {1, 2}
\* Refs of one project and environment: one per vault and provider.
ConcRefs ==
    {[vault |-> v, provider |-> pr, project |-> <<"a">>, env |-> <<"c">>,
      field |-> <<"K">>] : v \in Vaults, pr \in Providers}
ConcEntries == [ref : ConcRefs, value : Values]
\* The store before the two writes: empty, or as one earlier write left it.
ConcStores(backend) ==
    {EmptyStore} \cup
    {Run(backend, write(backend, entry), EmptyStore, 0).st : entry \in ConcEntries}

ConcStart ==
    /\ concBackend \in BackendNames
    /\ concBefore \in ConcStores(concBackend)
    /\ concStore = concBefore
    /\ \E entries \in [Clients -> ConcEntries] :
          clients = [c \in Clients |-> write(concBackend, entries[c])]

ConcIdle ==
    /\ concBackend = "1password"
    /\ concBefore = EmptyStore
    /\ concStore = EmptyStore
    /\ clients = [c \in Clients |-> NoOp]

\* One client runs the next store command of its write; the other client's
\* commands may come before and after it.
ClientStep ==
    /\ \E c \in Clients :
          /\ ~Finished(clients[c])
          /\ LET o == Step(concBackend, clients[c], concStore, FALSE)
             IN  /\ clients' = [clients EXCEPT ![c] = o.p]
                 /\ concStore' = o.st
    /\ UNCHANGED <<concBackend, concBefore, concOthers>>

-----------------------------------------------------------------------------
(* The sync command.                                                       *)
(* A string of a target configuration is either a plain name, Name(text),  *)
(* or an op:// URI, kept as its four segments like buildRef's result.      *)

Name(text) == [text |-> text]
\* s.startsWith("op://")
IsOpUri(s) == "vault" \in DOMAIN s

\* "readRaw" in backend
hasReadRaw(backend) == backend = "1password"

\* backend.buildInlineRef?.(ref) ?? null
buildInlineRef(backend, ref) == IF backend = "1password" THEN buildRef(ref) ELSE Null

\* The order in which Object.entries gives the providers.
ProviderOrder == <<"OpenAI", "Stripe">>
Prod == <<"p", "r", "o", "d">>

\* The ref with the first provider of the configuration in place of the one
\* that lists the field.
RefOfFirstProvider(config, providerName, field, env) ==
    [vault |-> config.vault, provider |-> ProviderOrder[1], project |-> config.project,
     env |-> env, field |-> field]

\* The ref of a provider's field, as buildSecretRefMap derives it from the
\* configuration.
RefOf(config, providerName, field, env) ==
    [vault |-> config.vault, provider |-> providerName, project |-> config.project,
     env |-> env, field |-> field]

\* buildSecretRefMap(config, backend, env = "prod"): a later provider's entry
\* replaces an earlier one for the same field.
RECURSIVE RefMapFrom(_, _, _, _, _)
RefMapFrom(config, backend, env, k, map) ==
    IF k > Len(ProviderOrder) THEN map
    ELSE LET providerName == ProviderOrder[k]
             fields == IF providerName \in DOMAIN config.providers
                       THEN Range(config.providers[providerName].fields) ELSE {}
             next == [f \in DOMAIN map \cup fields |->
                         IF f \in fields
                         THEN buildInlineRef(backend,
                                  RefOf(config, providerName, f, env))
                         ELSE map[f]]
         IN  RefMapFrom(config, backend, env, k + 1, next)
buildSecretRefMap(config, backend, env) ==
    IF "providers" \notin DOMAIN config THEN EmptyMap
    ELSE RefMapFrom(config, backend, env, 1, EmptyMap)

\* A resolved secret, or the error thrown on the way.
Resolved(name, found) ==
    IF found = Absent THEN [ok |-> FALSE, name |-> name]
    ELSE [ok |-> TRUE, name |-> name, value |-> found.v]

resolveSecret(nameOrRef, refMap, backend, st) ==
    IF IsOpUri(nameOrRef) /\ hasReadRaw(backend)
    THEN Resolved(nameOrRef, readRaw(st, nameOrRef))
    ELSE LET inlineRef == IF IsOpUri(nameOrRef) THEN Absent
                          ELSE Get(refMap, nameOrRef.text)
         IN  IF inlineRef.has /\ inlineRef.v # Null /\ hasReadRaw(backend)
             THEN Resolved(nameOrRef, readRaw(st, inlineRef.v))
             ELSE [ok |-> FALSE, name |-> nameOrRef]

\* The secrets syncTarget tries to resolve for one destination.
Resolutions(secretRefs, refMap, backend, st) ==
    IF IsArray(secretRefs)
    THEN {resolveSecret(envKey, refMap, backend, st) : envKey \in Range(secretRefs.items)}
    ELSE {LET ref == secretRefs.map[name]
          IN  IF IsOpUri(ref) /\ hasReadRaw(backend)
              THEN Resolved(Name(name), readRaw(st, ref))
              ELSE resolveSecret(Name(name), refMap, backend, st) :
          name \in DOMAIN secretRefs.map}

\* syncTarget: per destination, the secrets handed to target.sync and the
\* names reported as failed; up is target.isAvailable(), rejected the names
\* target.sync answers as failed.
syncTarget(target, config, refMap, backend, st, up, rejected) ==
    LET tried == [d \in DOMAIN config |-> Resolutions(config[d], refMap, backend, st)]
        handed == UNION {{[target |-> target, destination |-> d, name |-> r.name,
                           value |-> r.value] : r \in {x \in tried[d] : x.ok}} :
                         d \in DOMAIN config}
        unresolved == UNION {{[target |-> target, destination |-> d, name |-> r.name] :
                                 r \in {x \in tried[d] : ~x.ok}} : d \in DOMAIN config}
        failed == {[target |-> h.target, destination |-> h.destination, name |-> h.name] :
                      h \in {x \in handed : x.name \in rejected}}
    IN  IF ~up THEN [handed |-> {}, unresolved |-> {}, totalSynced |-> 0, totalFailed |-> 0]
        ELSE [handed |-> handed, unresolved |-> unresolved,
              totalSynced |-> Cardinality(handed) - Cardinality(failed),
              totalFailed |-> Cardinality(unresolved) + Cardinality(failed)]

TARGETS == {"github", "cloudflare"}

\* The sync command's action, from loadConfig to its last syncTarget.
Sync(config, st, targetArg, available, up, rejected) ==
    LET chosen == getBackend(Get(config, "backend"))
        backend == chosen.backend
        refMap == buildSecretRefMap(config, backend, Prod)
        targetNames == IF targetArg.has THEN {targetArg.v} ELSE DOMAIN config.targets
        synced == {name \in targetNames \cap TARGETS : name \in DOMAIN config.targets}
        done == [name \in synced |->
                    syncTarget(name, config.targets[name], refMap, backend, st,
                               up[name], rejected)]
    IN  IF "targets" \notin DOMAIN config \/ ~available
        THEN [exit |-> 1, backend |-> backend, targets |-> EmptyMap]
        ELSE [exit |-> 0, backend |-> backend, targets |-> done]

\* ---- configurations and stores sync runs on

SyncFields == {<<"K">>, <<"T">>}
SyncProject == <<"a">>
\* The provider that lists each field.
ProviderOf(field) == IF field = <<"K">> THEN "OpenAI" ELSE "Stripe"
ValueOf(field) == IF field = <<"K">> THEN "sk-1" ELSE "sk-2"

SyncProviders ==
    {Absent,
     Some([n \in {"OpenAI"} |-> [fields |-> <<<<"K">>>>]]),
     Some([n \in {"OpenAI", "Stripe"} |->
              [fields |-> IF n = "OpenAI" THEN <<<<"K">>>> ELSE <<<<"T">>>>]])}

StoredUri ==
    buildRef([vault |-> "shipkey", provider |-> "OpenAI", project |-> SyncProject,
              env |-> Prod, field |-> <<"K">>])
SecretRefs ==
    {Arr(<<Name(<<"K">>)>>), Arr(<<Name(<<"K">>), Name(<<"T">>)>>), Arr(<<StoredUri>>),
     Obj([n \in {<<"K">>} |-> StoredUri]), Obj([n \in {<<"T">>} |-> Name(<<"T">>)])}
SyncTargets ==
    {Absent}
    \cup {Some([t \in {"github"} |-> [d \in {"owner/repo"} |-> g]]) : g \in SecretRefs}
    \cup {Some([t \in TARGETS |-> IF t = "github" THEN [d \in {"owner/repo"} |-> g]
                                  ELSE [d \in {"worker"} |-> c]]) :
             g \in SecretRefs, c \in {Arr(<<Name(<<"T">>)>>)}}

SyncConfigs ==
    {MkObject([project |-> Some(SyncProject), vault |-> Some("shipkey"),
               backend |-> b, providers |-> p, targets |-> t]) :
        b \in BackendOpts, p \in SyncProviders, t \in SyncTargets}

\* The store after the given fields were pushed for the production
\* environment, each to the provider that lists it.
RECURSIVE Pushed(_, _, _)
Pushed(backend, fields, st) ==
    IF fields = {} THEN st
    ELSE LET f == CHOOSE x \in fields : \A y \in fields : x = <<"K">> \/ y # <<"K">>
             entry == [ref |-> [vault |-> "shipkey", provider |-> ProviderOf(f),
                                project |-> SyncProject, env |-> Prod, field |-> f],
                       value |-> ValueOf(f)]
         IN  Pushed(backend, fields \ {f}, Run(backend, write(backend, entry), st, 0).st)

NoReport == [exit |-> 0, backend |-> "none", targets |-> EmptyMap]

SyncStart ==
    /\ syncConfig \in SyncConfigs
    /\ \E stored \in SUBSET SyncFields :
          syncStore = Pushed(getBackend(Get(syncConfig, "backend")).backend,
                             stored, EmptyStore)
    /\ syncPc = "start"
    /\ syncReport = NoReport

SyncIdle ==
    /\ syncConfig = MkObject([project |-> Some(SyncProject), vault |-> Some("shipkey")])
    /\ syncStore = EmptyStore
    /\ syncPc = "start"
    /\ syncReport = NoReport

syncCommand ==
    /\ syncPc = "start"
    /\ \E targetArg \in {Absent, Some("github"), Some("cloudflare"), Some("vercel")},
          available \in BOOLEAN, up \in [TARGETS -> BOOLEAN],
          rejected \in {{}, {Name(<<"K">>)}} :
          syncReport' = Sync(syncConfig, syncStore, targetArg, available, up, rejected)
    /\ syncPc' = "done"
    /\ UNCHANGED <<syncConfig, syncStore, syncOthers>>

-----------------------------------------------------------------------------
(* list(project?, env?, vault) of both backends, run with no command       *)
(* failing.                                                                *)

\* `project && parsed.project !== project` is false: no filter is given (or
\* an empty one), or the value is the one asked for.
Passes(filter, value) == ~(filter.has /\ filter.v # <<>>) \/ value = filter.v

\* BitwardenBackend.list: the ref a custom field yields, if any.
BwFieldRefs(item, field, project, env, vault) ==
    LET parsed == parseFieldName(field.name)
    IN  IF parsed = Null THEN <<>>
        ELSE IF ~Passes(project, parsed.project) THEN <<>>
        ELSE IF ~Passes(env, parsed.env) THEN <<>>
        ELSE <<[vault |-> vault, provider |-> item.name, project |-> parsed.project,
                env |-> parsed.env, field |-> parsed.field]>>

\* OnePasswordBackend.list: the ref a field of `op item get` yields, if any.
\* A field set as `section.label[password]=value` has that section and label;
\* a field with no "." in its key has no section.
OpFieldRefs(item, field, project, env, vault) ==
    LET dotIndex == IndexOf(field.name, ".")
        sectionLabel == Before(field.name, dotIndex)
        label == After(field.name, dotIndex)
        dashIndex == LastIndexOf(sectionLabel, "-")
        proj == Before(sectionLabel, dashIndex)
        e == After(sectionLabel, dashIndex)
    IN  IF dotIndex = 0 \/ sectionLabel = <<>> THEN <<>>
        ELSE IF dashIndex = 0 THEN <<>>
        ELSE IF ~Passes(project, proj) THEN <<>>
        ELSE IF ~Passes(env, e) THEN <<>>
        ELSE <<[vault |-> vault, provider |-> item.name, project |-> proj,
                env |-> e, field |-> label]>>

FieldRefs(backend, item, field, project, env, vault) ==
    IF backend = "bitwarden" THEN BwFieldRefs(item, field, project, env, vault)
    ELSE OpFieldRefs(item, field, project, env, vault)

\* for (const field of item.fields)
RECURSIVE ItemRefs(_, _, _, _, _, _)
ItemRefs(backend, item, k, project, env, vault) ==
    IF k > Len(item.fields) THEN <<>>
    ELSE FieldRefs(backend, item, item.fields[k], project, env, vault)
         \o ItemRefs(backend, item, k + 1, project, env, vault)

\* for (const item of items): the items of one container, in listing order.
RECURSIVE ContainerRefs(_, _, _, _, _, _, _)
ContainerRefs(backend, st, container, k, project, env, vault) ==
    IF k > Len(st.items) THEN <<>>
    ELSE (IF st.items[k].container = container
          THEN ItemRefs(backend, st.items[k], 1, project, env, vault)
          ELSE <<>>)
         \o ContainerRefs(backend, st, container, k + 1, project, env, vault)

\* list(project, env, vault): the refs, or the error thrown.
list(backend, st, project, env, vault) ==
    IF backend = "bitwarden"
    THEN LET folders == ContainersNamed(st, vault)
         IN  IF folders = {} THEN [ok |-> TRUE, value |-> <<>>]
             ELSE [ok |-> TRUE,
                   value |-> ContainerRefs(backend, st, Min(folders), 1, project, env, vault)]
    ELSE LET v == OpVault(st, vault)
         IN  IF v = 0 THEN [ok |-> FALSE, value |-> "op command failed"]
             ELSE [ok |-> TRUE,
                   value |-> ContainerRefs(backend, st, v, 1, project, env, vault)]

\* ---- stores list runs on

ListEntries ==
    <<[ref |-> [vault |-> "shipkey", provider |-> "OpenAI", project |-> <<"a">>,
                env |-> <<"c">>, field |-> <<"K">>], value |-> "sk-1"],
      [ref |-> [vault |-> "shipkey", provider |-> "OpenAI", project |-> <<"a">>,
                env |-> <<"b", "-", "c">>, field |-> <<"K">>], value |-> "sk-2"],
      [ref |-> [vault |-> "shipkey", provider |-> "Stripe", project |-> <<"a", "-", "b">>,
                env |-> <<"c">>, field |-> <<"K">>], value |-> "sk-1"],
      [ref |-> [vault |-> "team", provider |-> "OpenAI", project |-> <<"a">>,
                env |-> <<"c">>, field |-> <<"K">>], value |-> "sk-2"]>>

\* The store after the chosen entries were written one after the other.
RECURSIVE WriteChosen(_, _, _, _)
WriteChosen(backend, chosen, k, st) ==
    IF k > Len(ListEntries) THEN st
    ELSE WriteChosen(backend, chosen, k + 1,
             IF chosen[k] THEN Run(backend, write(backend, ListEntries[k]), st, 0).st
             ELSE st)

\* An item the user keeps in the store that shipkey did not write: one field
\* without a section, one whose section has no "-".
ForeignFields ==
    <<[name |-> <<"p", "i", "n">>, value |-> "1234"],
      [name |-> <<"n", "o", "t", "e", ".", "x">>, value |-> "y"]>>
\* The store with that item added to the vault, which is there already or
\* was made by the user.
WithForeignItem(st, vault) ==
    LET existing == ContainersNamed(st, vault)
        containers == IF existing = {} THEN Append(st.containers, vault) ELSE st.containers
        container == IF existing = {} THEN Len(containers) ELSE Min(existing)
    IN  [containers |-> containers,
         items |-> Append(st.items, [container |-> container, name |-> "Wifi",
                                     fields |-> ForeignFields])]

\* The store after two clients ran the writes of `procs` at the same time,
\* their commands taking turns as the schedule says.
RECURSIVE Interleaved(_, _, _, _)
Interleaved(backend, procs, st, schedule) ==
    IF schedule = <<>> THEN st
    ELSE LET c == Head(schedule)
         IN  IF Finished(procs[c]) THEN Interleaved(backend, procs, st, Tail(schedule))
             ELSE LET o == Step(backend, procs[c], st, FALSE)
                  IN  Interleaved(backend, [procs EXCEPT ![c] = o.p], o.st, Tail(schedule))

\* Two pushes to a fresh store, for two providers, both looking for the vault
\* before either creates it.
RacedStore(backend) ==
    Interleaved(backend,
        <<write(backend, ListEntries[1]), write(backend, ListEntries[3])>>,
        EmptyStore, <<1, 1, 2, 2, 1, 1, 1, 2, 2, 2>>)

ListStores(backend) ==
    LET written == {WriteChosen(backend, chosen, 1, EmptyStore) :
                       chosen \in [1..Len(ListEntries) -> BOOLEAN]}
    IN  written \cup {WithForeignItem(st, "shipkey") : st \in written}
        \cup {RacedStore(backend)}

ListProjects == {Absent, Some(<<"a">>), Some(<<"a", "-", "b">>), Some(<<"z">>)}
ListEnvs == {Absent, Some(<<"c">>), Some(<<"b", "-", "c">>)}

ListStart ==
    /\ backendName \in BackendNames
    /\ store \in ListStores(backendName)
    /\ lastOp = NoOp
    /\ opCount = 0

\* backend.list(project, env, vault), from its first command to its return or
\* its throw.
List ==
    /\ opCount < MaxOps
    /\ \E project \in ListProjects, env \in ListEnvs, vault \in Vaults :
          lastOp' = [kind |-> "list", project |-> project, env |-> env, vault |-> vault,
                     out |-> list(backendName, store, project, env, vault)]
    /\ opCount' = opCount + 1
    /\ UNCHANGED <<backendName, store, storeOthers>>

-----------------------------------------------------------------------------
(* The scanner.                                                            *)
(* A directory is the sequence of its entries in readdir's order; a file   *)
(* carries its content.  An entry that is not readable makes readdir       *)
(* (a directory) or readFile (a file) throw: it is missing, or access is   *)
(* denied.                                                                 *)

\* s.includes(sub)
Includes(s, sub) ==
    \E i \in 1..(Len(s) + 1) :
        i + Len(sub) - 1 <= Len(s) /\ SubSeq(s, i, i + Len(sub) - 1) = sub

\* /^prefix$/ and /^prefix\..+$/
IsExactly(s, prefix) == s = prefix
HasSuffixAfter(s, prefix) ==
    Len(s) > Len(prefix) + 1 /\ SubSeq(s, 1, Len(prefix) + 1) = prefix \o <<".">>

DotEnv == <<".", "e", "n", "v">>
DotDevVars == <<".", "d", "e", "v", ".", "v", "a", "r", "s">>

\* A looser match, as patterns without their anchors and suffix separator
\* would give: any name that begins with .env or .dev.vars.
isEnvFileByPrefix(filename) ==
    \/ Len(filename) >= Len(DotEnv) /\ SubSeq(filename, 1, Len(DotEnv)) = DotEnv
    \/ Len(filename) >= Len(DotDevVars)
          /\ SubSeq(filename, 1, Len(DotDevVars)) = DotDevVars

\* ENV_PATTERNS.some((p) => p.test(filename))
isEnvFile(filename) ==
    \/ IsExactly(filename, DotEnv)
    \/ HasSuffixAfter(filename, DotEnv)
    \/ IsExactly(filename, DotDevVars)
    \/ HasSuffixAfter(filename, DotDevVars)

SKIP_DIRS ==
    {<<"n", "o", "d", "e", "_", "m", "o", "d", "u", "l", "e", "s">>,
     <<".", "g", "i", "t">>, <<"d", "i", "s", "t">>, <<"b", "u", "i", "l", "d">>,
     <<".", "n", "e", "x", "t">>, <<".", "t", "u", "r", "b", "o">>,
     <<".", "c", "a", "c", "h", "e">>}

DotExample == <<".", "e", "x", "a", "m", "p", "l", "e">>
DotTemplate == <<".", "t", "e", "m", "p", "l", "a", "t", "e">>

\* isTemplate(filename)
isTemplate(filename) == Includes(filename, DotExample) \/ Includes(filename, DotTemplate)

\* join(dir, name) relative to the root: relative(rootDir, join(dir, name))
JoinPath(dir, name) == IF dir = <<>> THEN name ELSE dir \o <<"/">> \o name

\* dirname(path)
dirname(path) ==
    LET i == LastIndexOf(path, "/")
    IN  IF i = 0 THEN <<".">> ELSE Before(path, i)

\* path.basename(path)
basename(path) == After(path, LastIndexOf(path, "/"))

Raised == [raised |-> TRUE]

\* walkDir(dir, rootDir, files): files with the env files found appended in
\* readdir's order, or the error of a readdir that throws.
RECURSIVE walkDir(_, _, _)
RECURSIVE WalkEntries(_, _, _, _)
WalkEntries(entries, k, dir, files) ==
    IF k > Len(entries) THEN [raised |-> FALSE, files |-> files]
    ELSE LET entry == entries[k]
         IN  IF entry.kind = "dir"
             THEN IF entry.name \in SKIP_DIRS
                  THEN WalkEntries(entries, k + 1, dir, files)
                  ELSE LET sub == walkDir(entry, JoinPath(dir, entry.name), files)
                       IN  IF sub.raised THEN Raised
                           ELSE WalkEntries(entries, k + 1, dir, sub.files)
             ELSE IF isEnvFile(entry.name)
             THEN WalkEntries(entries, k + 1, dir,
                      Append(files, [path |-> JoinPath(dir, entry.name), file |-> entry]))
             ELSE WalkEntries(entries, k + 1, dir, files)
walkDir(node, dir, files) ==
    IF ~node.readable THEN Raised ELSE WalkEntries(node.entries, 1, dir, files)

\* The ScannedFile of a found file.
ScannedFile(found) ==
    LET parsed == parseDotenv(found.file.content)
        template == isTemplate(found.path)
    IN  [path |-> found.path, isTemplate |-> template,
         vars |-> [i \in 1..Len(parsed) |->
                     [key |-> parsed[i].key,
                      value |-> IF template THEN Absent ELSE Some(parsed[i].value),
                      source |-> found.path, isTemplate |-> template]]]

\* groupMap after the files were added: one group per directory, in the
\* order of its first file.
GroupIndex(groups, key) ==
    IF \E i \in 1..Len(groups) : groups[i].path = key
    THEN CHOOSE i \in 1..Len(groups) : groups[i].path = key
    ELSE 0
RECURSIVE GroupFiles(_, _, _)
GroupFiles(foundFiles, k, groups) ==
    IF k > Len(foundFiles) THEN groups
    ELSE LET file == ScannedFile(foundFiles[k])
             groupKey == dirname(file.path)
             i == GroupIndex(groups, groupKey)
         IN  GroupFiles(foundFiles, k + 1,
                 IF i = 0 THEN Append(groups, [path |-> groupKey, files |-> <<file>>])
                 ELSE [groups EXCEPT ![i].files = Append(@, file)])

RECURSIVE SumVars(_)
SumVars(files) == IF files = <<>> THEN 0 ELSE Len(Head(files).vars) + SumVars(Tail(files))
RECURSIVE SumGroups(_)
SumGroups(groups) ==
    IF groups = <<>> THEN 0 ELSE SumVars(Head(groups).files) + SumGroups(Tail(groups))

\* scan(projectRoot)
scan(root) ==
    LET walked == walkDir(root, <<>>, <<>>)
    IN  IF walked.raised THEN Raised
        ELSE IF \E i \in 1..Len(walked.files) : ~walked.files[i].file.readable THEN Raised
        ELSE LET groups == GroupFiles(walked.files, 1, <<>>)
             IN  [raised |-> FALSE, groups |-> groups,
                  totalVars |-> SumGroups(groups), totalFiles |-> Len(walked.files)]

\* ---- directory trees scan runs on

EnvLocal == DotEnv \o <<".", "l", "o", "c", "a", "l">>
EnvExample == DotEnv \o DotExample
Envrc == <<".", "e", "n", "v", "r", "c">>
Readme == <<"R", "E", "A", "D", "M", "E">>
Apps == <<"a", "p", "p", "s">>
Api == <<"a", "p", "i">>
Dist == <<"d", "i", "s", "t">>
NodeModules == <<"n", "o", "d", "e", "_", "m", "o", "d", "u", "l", "e", "s">>
Templates == <<".", "t", "e", "m", "p", "l", "a", "t", "e", "s">>

\* What each file holds.
ContentOf(name) ==
    CASE name = DotEnv -> <<"A", "=", "1", "\n", "B", "=", "2", "\n", "C", "=", "3", "\n">>
      [] name = EnvLocal -> <<"A", "=", "4">>
      [] name = EnvExample -> <<"A", "=", "x", "\n", "B", "=", "\n">>
      [] name = DotDevVars -> <<"#", "c", "\n", "T", "=", "9", "\n">>
      [] name = Envrc -> <<"E", "=", "5", "\n">>
      [] OTHER -> <<"h", "i">>

\* No path: every entry is readable.
NoPath == <<"*">>

FileNode(name, path, broken) ==
    [kind |-> "file", name |-> name, content |-> ContentOf(name), readable |-> path # broken]
DirNode(name, path, entries, broken) ==
    [kind |-> "dir", name |-> name, entries |-> entries, readable |-> path # broken]
FilesIn(dir, names, broken) ==
    [i \in 1..Len(names) |-> FileNode(names[i], JoinPath(dir, names[i]), broken)]
\* A directory that is there or not, as the entries it adds to its parent.
DirIn(parent, name, entries, broken) ==
    <<DirNode(name, JoinPath(parent, name), entries, broken)>>

RootFiles ==
    {<<>>, <<DotEnv>>, <<DotEnv, EnvExample>>, <<Envrc>>, <<EnvLocal, DotDevVars, Readme>>}
AppsFiles == {<<>>, <<DotEnv>>, <<DotDevVars, EnvExample>>}
ApiFiles == {Absent, Some(<<DotEnv>>), Some(<<DotEnv, EnvExample>>)}
AppsDirs ==
    {Absent} \cup {Some([files |-> f, api |-> a, dist |-> d]) :
                      f \in AppsFiles, a \in ApiFiles, d \in BOOLEAN}
BrokenPaths ==
    {NoPath, <<>>, DotEnv, Apps, JoinPath(Apps, Api), JoinPath(Apps, DotEnv),
     JoinPath(JoinPath(Apps, Api), DotEnv), NodeModules}

\* The project root with its files and directories; the entry at path
\* `broken` is not readable.
Tree(rootFiles, apps, modules, templates, broken) ==
    LET appsEntries ==
            IF ~apps.has THEN <<>>
            ELSE DirIn(<<>>, Apps,
                     FilesIn(Apps, apps.v.files, broken)
                     \o (IF apps.v.api.has
                         THEN DirIn(Apps, Api,
                                  FilesIn(JoinPath(Apps, Api), apps.v.api.v, broken), broken)
                         ELSE <<>>)
                     \o (IF apps.v.dist
                         THEN DirIn(Apps, Dist,
                                  FilesIn(JoinPath(Apps, Dist), <<DotEnv>>, broken), broken)
                         ELSE <<>>),
                     broken)
        modulesEntries ==
            IF modules
            THEN DirIn(<<>>, NodeModules, FilesIn(NodeModules, <<DotEnv>>, broken), broken)
            ELSE <<>>
        templatesEntries ==
            IF templates
            THEN DirIn(<<>>, Templates, FilesIn(Templates, <<DotEnv>>, broken), broken)
            ELSE <<>>
    IN  DirNode(<<>>, <<>>,
            FilesIn(<<>>, rootFiles, broken) \o appsEntries \o modulesEntries
            \o templatesEntries, broken)

ScanStart ==
    /\ \E rootFiles \in RootFiles, apps \in AppsDirs, modules \in BOOLEAN,
          templates \in BOOLEAN, broken \in BrokenPaths :
          scanTree = Tree(rootFiles, apps, modules, templates, broken)
    /\ scanOut = NotYet

ScanIdle ==
    /\ scanTree = DirNode(<<>>, <<>>, <<>>, NoPath)
    /\ scanOut = NotYet

\* scan(projectRoot), from walkDir to its return or its throw.
Scan ==
    /\ ~scanOut.done
    /\ scanOut' = Done(scan(scanTree))
    /\ UNCHANGED <<scanTree, scanOthers>>

-----------------------------------------------------------------------------
(* writeLocalEnv: the values stored through the setup page, written to the *)
(* project's local env file.                                               *)

NL == "\n"

\* lines.join("\n")
RECURSIVE JoinLines(_)
JoinLines(lines) ==
    IF lines = <<>> THEN <<>>
    ELSE IF Len(lines) = 1 THEN lines[1]
    ELSE lines[1] \o <<NL>> \o JoinLines(Tail(lines))

\* l.startsWith(prefix), for a prefix of any length
StartsWithText(l, prefix) ==
    Len(l) >= Len(prefix) /\ SubSeq(l, 1, Len(prefix)) = prefix

\* lines.findIndex((l) => l.startsWith(`${key}=`)); 0 stands for -1
FindLine(lines, key) ==
    LET hits == {i \in 1..Len(lines) : StartsWithText(lines[i], key \o <<"=">>)}
    IN  IF hits = {} THEN 0 ELSE CHOOSE i \in hits : \A j \in hits : i <= j

\* lines.splice(lines.length - 1, 0, newLine)
InsertBeforeLast(lines, newLine) ==
    SubSeq(lines, 1, Len(lines) - 1) \o <<newLine>> \o <<lines[Len(lines)]>>

\* One round of the loop over Object.entries(envVars).
UpsertLine(lines, key, value) ==
    LET lineIndex == FindLine(lines, key)
        newLine == key \o <<"=">> \o value
    IN  IF lineIndex # 0 THEN [lines EXCEPT ![lineIndex] = newLine]
        ELSE IF lines # <<>> /\ lines[Len(lines)] = <<>>
             THEN InsertBeforeLast(lines, newLine)
             ELSE Append(lines, newLine)

RECURSIVE UpsertAll(_, _)
UpsertAll(lines, entries) ==
    IF entries = <<>> THEN lines
    ELSE UpsertAll(UpsertLine(lines, entries[1].key, entries[1].value), Tail(entries))

\* The content writeLocalEnv writes, from the content it read ("" when the
\* file could not be read).
NewContent(existing, entries) ==
    LET lines == UpsertAll(IF existing # <<>> THEN Split(existing, NL) ELSE <<>>, entries)
    IN  JoinLines(lines)
            \o (IF lines = <<>> \/ lines[Len(lines)] # <<>> THEN <<NL>> ELSE <<>>)

\* hasWrangler ? ".dev.vars" : ".env.local"
envFile(hasWrangler) == IF hasWrangler THEN ".dev.vars" ELSE ".env.local"

ReadOrEmpty(files, name) == IF files[name].has THEN files[name].v ELSE <<>>

\* writeLocalEnv(projectRoot, envVars) on the files of projectRoot.
writeLocalEnv(hasWrangler, files, entries) ==
    [files EXCEPT ![envFile(hasWrangler)] =
        Some(NewContent(ReadOrEmpty(files, envFile(hasWrangler)), entries))]

\* Inputs: files of up to MaxLines lines, with and without a final newline,
\* and maps of one or two keys in either insertion order. handleStore
\* passes no empty map and no blank value.
MaxLines == 3
EnvKeys == {<<"A">>, <<"B">>}
EnvValues == {<<"1">>, <<"2">>, <<"1", NL, "x">>}
EnvLines ==
    {<<"A", "=", "1">>, <<"A", "=", "9">>, <<"B", "=", "1">>,
     <<"A", "B", "=", "1">>, <<"x">>, <<>>}
EnvContents == {JoinLines(ls) : ls \in UNION {[1..n -> EnvLines] : n \in 0..MaxLines}}
EnvEntry == [key : EnvKeys, value : EnvValues]
EnvMaps ==
    {<<e>> : e \in EnvEntry}
    \cup {<<e, f>> : <<e, f>> \in {p \in EnvEntry \X EnvEntry : p[1].key # p[2].key}}
EnvFileNames == {".dev.vars", ".env.local"}

LocalStart ==
    /\ localWrangler \in BOOLEAN
    /\ \E content \in {Absent} \cup {Some(c) : c \in EnvContents} :
          localFiles = [name \in EnvFileNames |->
                           IF name = envFile(localWrangler) THEN content ELSE Absent]
    /\ localEnvVars \in EnvMaps
    /\ localRuns = <<>>

LocalIdle ==
    /\ localWrangler = FALSE
    /\ localFiles = [name \in EnvFileNames |-> Absent]
    /\ localEnvVars = <<>>
    /\ localRuns = <<>>

MaxRuns == 2

\* writeLocalEnv(projectRoot, envVars), from its first readFile to writeFile.
\* localRuns keeps the files each run started from.
WriteLocalEnv ==
    /\ Len(localRuns) < MaxRuns
    /\ localFiles' = writeLocalEnv(localWrangler, localFiles, localEnvVars)
    /\ localRuns' = Append(localRuns, localFiles)
    /\ UNCHANGED <<localWrangler, localEnvVars, localOthers>>

-----------------------------------------------------------------------------
(* The provider registry: guessProvider and groupByProvider.               *)

LowerCase == <<"a", "b", "c", "d", "e", "f", "g", "h", "i", "j", "k", "l", "m",
               "n", "o", "p", "q", "r", "s", "t", "u", "v", "w", "x", "y", "z">>
UpperCase == <<"A", "B", "C", "D", "E", "F", "G", "H", "I", "J", "K", "L", "M",
               "N", "O", "P", "Q", "R", "S", "T", "U", "V", "W", "X", "Y", "Z">>

\* The text a pattern with the i flag compares: letters folded to one case.
FoldCase(s) ==
    [i \in 1..Len(s) |->
        IF \E j \in 1..Len(LowerCase) : LowerCase[j] = s[i]
        THEN UpperCase[CHOOSE j \in 1..Len(LowerCase) : LowerCase[j] = s[i]]
        ELSE s[i]]

\* The rule table. A pattern /TEXT/i is [at |-> "in"], /^TEXT/i is
\* [at |-> "start"].
PROVIDERS == <<
    [name |-> "OpenRouter", patterns |-> <<[at |-> "in", text |-> <<"O", "P", "E", "N", "R", "O", "U", "T", "E", "R">>]>>,
     guide_url |-> Some("https://openrouter.ai/keys"),
     guide |-> Some("OpenRouter -> Keys -> Create Key")],
    [name |-> "OpenAI", patterns |-> <<[at |-> "in", text |-> <<"O", "P", "E", "N", "A", "I">>]>>,
     guide_url |-> Some("https://platform.openai.com/api-keys"),
     guide |-> Some("OpenAI Platform -> API Keys -> Create new secret key")],
    [name |-> "Stripe", patterns |-> <<[at |-> "in", text |-> <<"S", "T", "R", "I", "P", "E">>]>>,
     guide_url |-> Some("https://dashboard.stripe.com/apikeys"),
     guide |-> Some("Stripe Dashboard -> Developers -> API Keys")],
    [name |-> "GitHub OAuth", patterns |-> <<[at |-> "in", text |-> <<"G", "I", "T", "H", "U", "B">>]>>,
     guide_url |-> Some("https://github.com/settings/developers"),
     guide |-> Some("GitHub -> Settings -> Developer settings -> OAuth Apps")],
    [name |-> "fal.ai", patterns |-> <<[at |-> "in", text |-> <<"F", "A", "L">>]>>,
     guide_url |-> Some("https://fal.ai/dashboard/keys"),
     guide |-> Some("fal.ai -> Dashboard -> Keys")],
    [name |-> "Database", patterns |-> <<[at |-> "in", text |-> <<"D", "A", "T", "A", "B", "A", "S", "E">>], [at |-> "start", text |-> <<"D", "B", "_">>]>>,
     guide_url |-> Absent,
     guide |-> Absent],
    [name |-> "Redis", patterns |-> <<[at |-> "in", text |-> <<"R", "E", "D", "I", "S">>]>>,
     guide_url |-> Absent,
     guide |-> Absent],
    [name |-> "Cloudflare", patterns |-> <<[at |-> "in", text |-> <<"C", "L", "O", "U", "D", "F", "L", "A", "R", "E">>]>>,
     guide_url |-> Some("https://dash.cloudflare.com/profile/api-tokens"),
     guide |-> Some("Cloudflare Dashboard -> Profile -> API Tokens -> Create Token")],
    [name |-> "npm", patterns |-> <<[at |-> "start", text |-> <<"N", "P", "M">>]>>,
     guide_url |-> Some("https://www.npmjs.com/settings/~/tokens"),
     guide |-> Some("npmjs.com -> Access Tokens -> Generate New Token (Classic) -> Publish")],
    [name |-> "Resend", patterns |-> <<[at |-> "in", text |-> <<"R", "E", "S", "E", "N", "D">>]>>,
     guide_url |-> Some("https://resend.com/api-keys"),
     guide |-> Some("Resend -> API Keys -> Create API Key")],
    [name |-> "AWS", patterns |-> <<[at |-> "start", text |-> <<"A", "W", "S">>]>>,
     guide_url |-> Some("https://console.aws.amazon.com/iam/"),
     guide |-> Some("AWS Console -> IAM -> Users -> Security credentials")],
    [name |-> "Vercel", patterns |-> <<[at |-> "in", text |-> <<"V", "E", "R", "C", "E", "L">>]>>,
     guide_url |-> Some("https://vercel.com/account/tokens"),
     guide |-> Some("Vercel -> Account Settings -> Tokens")],
    [name |-> "Fly", patterns |-> <<[at |-> "in", text |-> <<"F", "L", "Y">>]>>,
     guide_url |-> Some("https://fly.io/user/personal_access_tokens"),
     guide |-> Some("Fly.io -> Account -> Access Tokens")],
    [name |-> "Supabase", patterns |-> <<[at |-> "in", text |-> <<"S", "U", "P", "A", "B", "A", "S", "E">>]>>,
     guide_url |-> Some("https://supabase.com/dashboard/project/_/settings/api"),
     guide |-> Some("Supabase -> Project Settings -> API")],
    [name |-> "Turso", patterns |-> <<[at |-> "in", text |-> <<"T", "U", "R", "S", "O">>]>>,
     guide_url |-> Some("https://turso.tech/app"),
     guide |-> Some("Turso -> Dashboard -> Database -> Create Token")],
    [name |-> "Session", patterns |-> <<[at |-> "in", text |-> <<"S", "E", "S", "S", "I", "O", "N">>]>>,
     guide_url |-> Absent,
     guide |-> Absent]>>

\* p.test(key) for a pattern compared as written, without the i flag.
TestCaseSensitive(p, key) ==
    IF p.at = "start" THEN StartsWithText(key, p.text) ELSE Includes(key, p.text)

\* p.test(key)
Test(p, key) ==
    IF p.at = "start" THEN StartsWithText(FoldCase(key), p.text)
    ELSE Includes(FoldCase(key), p.text)

\* provider.patterns.some((p) => p.test(key))
SomePatternMatches(provider, key) ==
    \E k \in 1..Len(provider.patterns) : Test(provider.patterns[k], key)

\* The loop of guessProvider from rule i on.
RECURSIVE GuessFrom(_, _)
GuessFrom(i, key) ==
    IF i > Len(PROVIDERS) THEN "General"
    ELSE IF SomePatternMatches(PROVIDERS[i], key) THEN PROVIDERS[i].name
    ELSE GuessFrom(i + 1, key)

guessProvider(key) == GuessFrom(1, key)

\* PROVIDERS.find((p) => p.name === providerName)
FindProvider(providerName) ==
    LET hits == {i \in 1..Len(PROVIDERS) : PROVIDERS[i].name = providerName}
    IN  IF hits = {} THEN Absent ELSE Some(PROVIDERS[CHOOSE i \in hits : \A j \in hits : i <= j])

\* The entry groupByProvider creates for a provider it has not seen yet.
NewProviderEntry(providerName) ==
    LET def == FindProvider(providerName)
    IN  MkObject([
            fields |-> Some(<<>>),
            guide_url |-> IF def.has /\ TruthyStr(def.v.guide_url) THEN def.v.guide_url ELSE Absent,
            guide |-> IF def.has /\ TruthyStr(def.v.guide) THEN def.v.guide ELSE Absent])

\* The loop of groupByProvider over the keys left, with the result so far.
RECURSIVE GroupFrom(_, _)
GroupFrom(envKeys, result) ==
    IF envKeys = <<>> THEN result
    ELSE LET providerName == guessProvider(envKeys[1])
             entry == IF providerName \in DOMAIN result THEN result[providerName]
                      ELSE NewProviderEntry(providerName)
             pushed == [entry EXCEPT !.fields = Append(entry.fields, envKeys[1])]
         IN  GroupFrom(Tail(envKeys),
                 [n \in DOMAIN result \cup {providerName} |->
                     IF n = providerName THEN pushed ELSE result[n]])

groupByProvider(envKeys) == GroupFrom(envKeys, EmptyMap)

\* Env keys: of one rule, of no rule, in lower case, of two rules, with a
\* rule's text at the start and not at the start.
MaxKeys == 3
GuessKeys == {
    <<"S", "T", "R", "I", "P", "E", "_", "S", "E", "C", "R", "E", "T", "_", "K", "E", "Y">>,
    <<"F", "O", "O", "_", "B", "A", "R">>,
    <<"s", "t", "r", "i", "p", "e", "_", "k", "e", "y">>,
    <<"O", "P", "E", "N", "A", "I", "_", "S", "T", "R", "I", "P", "E", "_", "I", "D">>,
    <<"D", "B", "_", "U", "R", "L">>,
    <<"M", "Y", "_", "D", "B", "_", "U", "R", "L">>,
    <<"N", "P", "M", "_", "T", "O", "K", "E", "N">>,
    <<"M", "Y", "_", "N", "P", "M">>,
    <<"D", "E", "F", "A", "U", "L", "T", "_", "R", "E", "G", "I", "O", "N">>,
    <<"O", "P", "E", "N", "R", "O", "U", "T", "E", "R", "_", "O", "P", "E", "N", "A", "I">>}
KeyLists == UNION {[1..n -> GuessKeys] : n \in 0..MaxKeys}

GroupStart ==
    /\ gKeys \in KeyLists
    /\ gGuess = NotYet
    /\ gGroups = NotYet

GroupIdle ==
    /\ gKeys = <<>>
    /\ gGuess = NotYet
    /\ gGroups = NotYet

\* guessProvider(key) for each of the keys.
GuessProvider ==
    /\ ~gGuess.done
    /\ gGuess' = Done([i \in 1..Len(gKeys) |-> guessProvider(gKeys[i])])
    /\ UNCHANGED <<gKeys, gGroups, groupOthers>>

\* groupByProvider(envKeys)
GroupByProvider ==
    /\ ~gGroups.done
    /\ gGroups' = Done(groupByProvider(gKeys))
    /\ UNCHANGED <<gKeys, gGuess, groupOthers>>

-----------------------------------------------------------------------------
(* parseDotenv applied to files of several lines.                          *)

MaxDotLines == 3
DotLines == {
    <<"K", "=", "s">>,
    <<" ", "K", " ", "=", " ", "s", " ">>,
    <<"#", "K", "=", "s">>,
    <<" ", "#", " ", "c">>,
    <<"K">>,
    <<>>,
    <<" ">>,
    <<"K", "=">>,
    <<"=", "s">>,
    <<"K", "=", "\"", "s", "\"">>,
    <<"K", "=", "'">>,
    <<"K", "=", "s", "=", "s">>,
    <<"J", "=", "s", "\r">>}
DotContents == {JoinLines(ls) : ls \in UNION {[1..n -> DotLines] : n \in 0..MaxDotLines}}

FileInputs ==
    /\ dValue = <<>>
    /\ dContent \in DotContents
    /\ dParsed = NotYet

-----------------------------------------------------------------------------
(* checkStatus and isAvailable of both backends.                           *)

\* What a run of the client gives: exec throws unless the exit code is 0
\* (also when the program cannot be spawned), else returns its output.
Exited(code, output) == [exit |-> code, output |-> output]
Threw(result) == result.exit # 0

\* Output texts by what JSON.parse makes of them.
NotJson == [json |-> FALSE]
Json(value) == [json |-> TRUE, value |-> value]

\* The command each backend probes authentication with.
AuthCommand(backend) == IF backend = "1password" THEN "account list" ELSE "status"

\* The second try block of OnePasswordBackend.checkStatus.
OpAuthStatus(result) ==
    IF Threw(result) \/ ~result.output.json THEN "not_logged_in"
    ELSE IF ~IsArray(result.output.value) \/ Len(result.output.value.items) = 0
         THEN "not_logged_in"
    ELSE "ready"

\* The second try block of BitwardenBackend.checkStatus without its check
\* for a locked vault.
BwAuthStatusLockedReady(result) ==
    IF Threw(result) \/ ~result.output.json THEN "not_logged_in"
    ELSE IF Get(result.output.value.map, "status") = Some("unauthenticated")
         THEN "not_logged_in"
    ELSE "ready"

\* The second try block of BitwardenBackend.checkStatus.
BwAuthStatus(result) ==
    IF Threw(result) \/ ~result.output.json THEN "not_logged_in"
    ELSE IF Get(result.output.value.map, "status") = Some("unauthenticated")
         THEN "not_logged_in"
    ELSE IF Get(result.output.value.map, "status") = Some("locked")
         THEN "not_logged_in"
    ELSE "ready"

\* checkStatus(): the status and the commands it ran, on a client that
\* answers cli.version to --version and cli.auth to the authentication probe.
checkStatus(backend, cli) ==
    IF Threw(cli.version)
    THEN [status |-> "not_installed", ran |-> <<"--version">>]
    ELSE [status |-> IF backend = "1password" THEN OpAuthStatus(cli.auth)
                     ELSE BwAuthStatus(cli.auth),
          ran |-> <<"--version", AuthCommand(backend)>>]

\* isAvailable()
isAvailable(backend, cli) ==
    [available |-> checkStatus(backend, cli).status = "ready",
     ran |-> checkStatus(backend, cli).ran]

\* Clients: not installed (spawn fails, or --version exits with an error),
\* installed with the authentication probe failing, printing text that is
\* not JSON, or reporting each of its answers.
VersionResults == {Exited(0, "2.30.0"), Exited(1, ""), Exited(127, "")}
Account == [email |-> "dev@example.com"]
OpAuthResults ==
    {Exited(1, NotJson), Exited(0, NotJson), Exited(0, Json(Arr(<<>>))),
     Exited(0, Json(Arr(<<Account>>))), Exited(0, Json(Arr(<<Account, Account>>)))}
BwAuthResults ==
    {Exited(1, NotJson), Exited(0, NotJson)}
    \cup {Exited(0, Json(Obj([status |-> st]))) : st \in {"unauthenticated", "locked", "unlocked"}}
AuthResults(backend) == IF backend = "1password" THEN OpAuthResults ELSE BwAuthResults

ProbeStart ==
    /\ pBackend \in {"1password", "bitwarden"}
    /\ \E v \in VersionResults, a \in AuthResults(pBackend) :
          pCli = [version |-> v, auth |-> a]
    /\ pStatus = NotYet
    /\ pAvailable = NotYet

ProbeIdle ==
    /\ pBackend = "1password"
    /\ pCli = [version |-> Exited(1, ""), auth |-> Exited(1, NotJson)]
    /\ pStatus = NotYet
    /\ pAvailable = NotYet

\* backend.checkStatus()
CheckStatus ==
    /\ ~pStatus.done
    /\ pStatus' = Done(checkStatus(pBackend, pCli))
    /\ UNCHANGED <<pBackend, pCli, pAvailable, probeOthers>>

\* backend.isAvailable()
IsAvailable ==
    /\ ~pAvailable.done
    /\ pAvailable' = Done(isAvailable(pBackend, pCli))
    /\ UNCHANGED <<pBackend, pCli, pStatus, probeOthers>>

-----------------------------------------------------------------------------
(* getBackend and listBackends called with the names a configuration or a  *)
(* command line can carry.                                                *)

MaxCalls == 2
BackendArgs ==
    {Absent} \cup {Some(n) : n \in {"1password", "bitwarden", "unknown", "1Password", "",
                                    "constructor", "toString", "__proto__"}}

RegistryStart ==
    /\ bCalls = <<>>
    /\ bListed = NotYet

RegistryIdle ==
    /\ bCalls = <<>>
    /\ bListed = NotYet

\* getBackend(name), or getBackend() for an absent name.
GetBackend ==
    /\ Len(bCalls) < MaxCalls
    /\ \E name \in BackendArgs :
          bCalls' = Append(bCalls, [name |-> name, out |-> getBackend(name)])
    /\ UNCHANGED <<bListed, registryOthers>>

\* listBackends()
ListBackends ==
    /\ ~bListed.done
    /\ bListed' = Done(listBackends)
    /\ UNCHANGED <<bCalls, registryOthers>>

-----------------------------------------------------------------------------
(* buildSecretRefMap applied to configurations whose providers may list    *)
(* one field twice.                                                        *)

Dev == <<"d", "e", "v">>
RefEnvs == {Absent, Some(Prod), Some(Dev)}
RefProviders ==
    {Absent,
     Some(EmptyMap),
     Some([n \in {"OpenAI"} |-> [fields |-> <<<<"K">>>>]]),
     Some([n \in {"OpenAI", "Stripe"} |->
              [fields |-> IF n = "OpenAI" THEN <<<<"K">>>> ELSE <<<<"T">>>>]]),
     Some([n \in {"OpenAI", "Stripe"} |->
              [fields |-> IF n = "OpenAI" THEN <<<<"K">>>> ELSE <<<<"T">>, <<"K">>>>]]),
     Some([n \in {"Stripe"} |-> [fields |-> <<>>]])}
RefConfigs ==
    {MkObject([project |-> Some(p), vault |-> Some(v), providers |-> ps]) :
        p \in {<<"a">>, <<"a", "-", "b">>}, v \in {"shipkey", "team"}, ps \in RefProviders}

RefsStart ==
    /\ rConfig \in RefConfigs
    /\ rBackend \in BackendNames
    /\ rEnv \in RefEnvs
    /\ rMap = NotYet

RefsIdle ==
    /\ rConfig = EmptyMap
    /\ rBackend = "none"
    /\ rEnv = Absent
    /\ rMap = NotYet

\* buildSecretRefMap(config, backend, env), or buildSecretRefMap(config,
\* backend) for an absent env.
BuildSecretRefMap ==
    /\ ~rMap.done
    /\ rMap' = Done(buildSecretRefMap(rConfig, rBackend, IF rEnv.has THEN rEnv.v ELSE Prod))
    /\ UNCHANGED <<rConfig, rBackend, rEnv, refsOthers>>

-----------------------------------------------------------------------------
(* The push command and the setup page's push and store handlers: the      *)
(* entries they collect and the writes they make, one after the other.     *)

\* f.vars.filter((v) => v.value && v.value.length > 0).map(...)
RECURSIVE VarEntries(_)
VarEntries(fileVars) ==
    IF fileVars = <<>> THEN <<>>
    ELSE LET v == Head(fileVars)
         IN  (IF v.value.has /\ Len(v.value.v) > 0
              THEN <<[key |-> v.key, value |-> v.value.v,
                      provider |-> guessProvider(v.key)]>>
              ELSE <<>>) \o VarEntries(Tail(fileVars))

\* g.files.filter((f) => !f.isTemplate).flatMap(...)
RECURSIVE FileEntries(_)
FileEntries(files) ==
    IF files = <<>> THEN <<>>
    ELSE (IF Head(files).isTemplate THEN <<>> ELSE VarEntries(Head(files).vars))
         \o FileEntries(Tail(files))

\* result.groups.flatMap(...)
RECURSIVE CollectEntries(_)
CollectEntries(groups) ==
    IF groups = <<>> THEN <<>>
    ELSE FileEntries(Head(groups).files) \o CollectEntries(Tail(groups))

\* Object.entries(body.fields) without the values that trim to nothing, each
\* under the provider of the request.
RECURSIVE FieldEntries(_, _)
FieldEntries(fields, provider) ==
    IF fields = <<>> THEN <<>>
    ELSE (IF Trim(Head(fields).value) = <<>> THEN <<>>
          ELSE <<[key |-> Head(fields).field, value |-> Head(fields).value,
                  provider |-> provider]>>)
         \o FieldEntries(Tail(fields), provider)

NoWrites(st) == [st |-> st, attempts |-> <<>>, reports |-> <<>>]

\* One turn of the loop: backend.write in its try, the report in either
\* branch. The write's failing[k]-th command fails (none when it is 0).
WriteEntry(backend, base, entry, failAt, acc) ==
    LET ref == [vault |-> base.vault, provider |-> entry.provider,
                project |-> base.project, env |-> base.env, field |-> entry.key]
    IN  CHOOSE next \in
            {[st |-> o.st,
              attempts |-> Append(acc.attempts,
                                  [ref |-> ref, value |-> entry.value,
                                   ok |-> o.p.pc = "done"]),
              reports |-> Append(acc.reports,
                                 [field |-> entry.key,
                                  status |-> IF o.p.pc = "done" THEN "ok" ELSE "error"])] :
                o \in {Run(backend, write(backend, [ref |-> ref, value |-> entry.value]),
                           acc.st, failAt)}} : TRUE

FailAt(failing, k) == IF k \in DOMAIN failing THEN failing[k] ELSE 0

\* The loop that gives up at the first write that throws.
RECURSIVE WriteEntriesUntilThrow(_, _, _, _, _, _)
WriteEntriesUntilThrow(backend, base, entries, k, failing, acc) ==
    IF k > Len(entries) THEN acc
    ELSE CHOOSE done \in
             {IF ~next.attempts[k].ok THEN next
              ELSE WriteEntriesUntilThrow(backend, base, entries, k + 1, failing, next) :
                 next \in {WriteEntry(backend, base, entries[k], FailAt(failing, k), acc)}} :
             TRUE

\* for (const entry of entries) { try { await backend.write(...) } catch ... }
RECURSIVE WriteEntries(_, _, _, _, _, _)
WriteEntries(backend, base, entries, k, failing, acc) ==
    IF k > Len(entries) THEN acc
    ELSE CHOOSE done \in
             {WriteEntries(backend, base, entries, k + 1, failing, next) :
                 next \in {WriteEntry(backend, base, entries[k], FailAt(failing, k), acc)}} :
             TRUE

Outcomes(handler, exit, base, backend, entries, done) ==
    [handler |-> handler, exit |-> exit, base |-> base, backend |-> backend,
     collected |-> entries, attempts |-> done.attempts, reports |-> done.reports]

\* const entries = result.groups.flatMap(...), nothing when scan threw.
Collected(result) == IF result.raised THEN <<>> ELSE CollectEntries(result.groups)

\* The push command on a directory whose scan gave `result` and whose
\* entries are `entries`: basename(projectRoot), shipkey.json when it can be
\* read, the options.
pushCommand(dir, config, opts, up, result, entries, failing, st) ==
    LET base == [vault |-> IF opts.vault.has THEN opts.vault.v ELSE "shipkey",
                 project |-> IF opts.project.has /\ opts.project.v # <<>>
                             THEN opts.project.v ELSE dir.name,
                 env |-> IF opts.env.has THEN opts.env.v ELSE Dev]
        backend == getBackend(IF config.has /\ TruthyStr(Get(config.v, "backend"))
                              THEN Get(config.v, "backend") ELSE Absent).backend
    IN  IF ~up \/ result.raised
        THEN [out |-> Outcomes("push", 1, base, backend, <<>>, NoWrites(st)), st |-> st]
        ELSE CHOOSE r \in
                 {[out |-> Outcomes("push", 0, base, backend, entries, done),
                   st |-> done.st] :
                     done \in {WriteEntries(backend, base, entries, 1, failing,
                                            NoWrites(st))}} : TRUE

\* handlePush(config, env, projectRoot, backend), likewise.
handlePush(config, env, backend, result, entries, failing, st) ==
    LET base == [vault |-> config.vault, project |-> config.project, env |-> env]
    IN  IF result.raised
        THEN [out |-> Outcomes("handlePush", 500, base, backend, <<>>, NoWrites(st)),
              st |-> st]
        ELSE CHOOSE r \in
                 {[out |-> Outcomes("handlePush", 200, base, backend, entries, done),
                   st |-> done.st] :
                     done \in {WriteEntries(backend, base, entries, 1, failing,
                                            NoWrites(st))}} : TRUE

\* handleStore(config, env, projectRoot, body, backend)
handleStore(config, env, body, backend, failing, st) ==
    LET base == [vault |-> config.vault, project |-> config.project, env |-> env]
        known == "providers" \in DOMAIN config /\ body.provider \in DOMAIN config.providers
    IN  IF ~known
        THEN [out |-> Outcomes("handleStore", 400, base, backend, <<>>, NoWrites(st)),
              st |-> st]
        ELSE CHOOSE r \in
                 {[out |-> Outcomes("handleStore", 200, base, backend, entries, done),
                   st |-> done.st] :
                     entries \in {FieldEntries(body.fields, body.provider)},
                     done \in {WriteEntries(backend, base,
                                            FieldEntries(body.fields, body.provider), 1,
                                            failing, NoWrites(st))}} : TRUE

\* ---- the projects the three run on

MaxFailing == 2
FailingCommands == {0, 1, 2}

PushRootFiles == {<<>>, <<DotEnv, EnvExample>>, <<EnvLocal, DotDevVars, Readme>>}
PushApps ==
    {Absent, Some([files |-> <<DotDevVars, EnvExample>>, api |-> Absent, dist |-> FALSE])}
PushTrees ==
    {Tree(rootFiles, apps, FALSE, templates, NoPath) :
        rootFiles \in PushRootFiles, apps \in PushApps, templates \in BOOLEAN}
    \cup {Tree(<<DotEnv, EnvExample>>, apps, FALSE, FALSE, Apps) : apps \in PushApps}
PushDirs == [name : {<<"a">>, <<"r">>}, tree : PushTrees]
PushConfigs ==
    {MkObject([project |-> Some(<<"a">>), vault |-> Some(v), backend |-> b,
               providers |-> ps]) :
        v \in {"shipkey", "team"}, b \in {Absent, Some("bitwarden")},
        ps \in {Absent,
                 Some([n \in {"General"} |->
                          [fields |-> <<<<"A">>, <<"B">>, <<"C">>, <<"T">>>>]])}}
PushOpts ==
    [env : {Absent, Some(Prod)}, vault : {Absent, Some("team")},
     project : {Absent, Some(<<"a">>)}]
StoreBodies ==
    [provider : {"General", "Stripe"},
     fields : {<<[field |-> <<"K">>, value |-> <<"1">>]>>,
               <<[field |-> <<"K">>, value |-> <<" ">>],
                 [field |-> <<"T">>, value |-> <<"2">>]>>,
               <<[field |-> <<"K">>, value |-> <<"1">>],
                 [field |-> <<"T">>, value |-> <<>>],
                 [field |-> <<"U">>, value |-> <<"3">>]>>}]

NotRun ==
    [handler |-> "none", exit |-> 0, base |-> [vault |-> "", project |-> <<>>, env |-> <<>>],
     backend |-> "none", collected |-> <<>>, attempts |-> <<>>, reports |-> <<>>]

PushStart ==
    /\ pushDir \in PushDirs
    /\ pushJson \in {Absent} \cup {Some(c) : c \in PushConfigs}
    /\ pushFailing \in [1..MaxFailing -> FailingCommands]
    /\ pushStore = EmptyStore
    /\ pushOut = NotRun

PushIdle ==
    /\ pushDir = [name |-> <<>>, tree |-> DirNode(<<>>, <<>>, <<>>, NoPath)]
    /\ pushJson = Absent
    /\ pushFailing = <<>>
    /\ pushStore = EmptyStore
    /\ pushOut = NotRun

\* shipkey push [dir], from its options to its last write.
PushCommand ==
    /\ pushOut.handler = "none"
    /\ \E opts \in PushOpts, up \in BOOLEAN, result \in {scan(pushDir.tree)} :
          \E entries \in {Collected(result)} :
             \E r \in {pushCommand(pushDir, pushJson, opts, up, result, entries,
                                    pushFailing, pushStore)} :
                pushOut' = r.out /\ pushStore' = r.st
    /\ UNCHANGED <<pushDir, pushJson, pushFailing, pushOthers>>

\* POST /api/push of the setup page.
HandlePush ==
    /\ pushOut.handler = "none"
    /\ pushJson.has
    /\ \E env \in {Dev, Prod}, backend \in BackendNames, result \in {scan(pushDir.tree)} :
          \E entries \in {Collected(result)} :
             \E r \in {handlePush(pushJson.v, env, backend, result, entries,
                                   pushFailing, pushStore)} :
                pushOut' = r.out /\ pushStore' = r.st
    /\ UNCHANGED <<pushDir, pushJson, pushFailing, pushOthers>>

\* POST /api/store of the setup page.
HandleStore ==
    /\ pushOut.handler = "none"
    /\ pushJson.has
    /\ \E env \in {Dev, Prod}, backend \in BackendNames, body \in StoreBodies :
          \E r \in {handleStore(pushJson.v, env, body, backend, pushFailing, pushStore)} :
             pushOut' = r.out /\ pushStore' = r.st
    /\ UNCHANGED <<pushDir, pushJson, pushFailing, pushOthers>>

-----------------------------------------------------------------------------
(* The specifications.                                                     *)

InitMerge == MergeInputs /\ SetupIdle /\ CodecIdle /\ DotenvIdle /\ StoreIdle /\ ConcIdle /\ SyncIdle /\ ScanIdle /\ LocalIdle /\ GroupIdle /\ ProbeIdle /\ RegistryIdle /\ RefsIdle /\ PushIdle
NextMerge == MergeOnce \/ MergeTwice \/ MergeSelf
SpecMerge == InitMerge /\ [][NextMerge]_vars

InitSetup == SetupStart /\ MergeIdle /\ CodecIdle /\ DotenvIdle /\ StoreIdle /\ ConcIdle /\ SyncIdle /\ ScanIdle /\ LocalIdle /\ GroupIdle /\ ProbeIdle /\ RegistryIdle /\ RefsIdle /\ PushIdle
NextSetup == setupCommand \/ serverStoreOperation \/ serverStop
SpecSetup == InitSetup /\ [][NextSetup]_vars

InitCodec == CodecInputs /\ MergeIdle /\ SetupIdle /\ DotenvIdle /\ StoreIdle /\ ConcIdle /\ SyncIdle /\ ScanIdle /\ LocalIdle /\ GroupIdle /\ ProbeIdle /\ RegistryIdle /\ RefsIdle /\ PushIdle
NextCodec == Encode \/ Decode
SpecCodec == InitCodec /\ [][NextCodec]_vars

InitAttr ==
    AttrInputs /\ MergeIdle /\ SetupIdle /\ DotenvIdle /\ StoreIdle /\ ConcIdle /\ SyncIdle /\ ScanIdle /\ LocalIdle /\ GroupIdle /\ ProbeIdle /\ RegistryIdle /\ RefsIdle /\ PushIdle
NextAttr == Decode
SpecAttr == InitAttr /\ [][NextAttr]_vars

InitDotenv == DotenvInputs /\ MergeIdle /\ SetupIdle /\ CodecIdle /\ StoreIdle /\ ConcIdle /\ SyncIdle /\ ScanIdle /\ LocalIdle /\ GroupIdle /\ ProbeIdle /\ RegistryIdle /\ RefsIdle /\ PushIdle
NextDotenv == Parse
SpecDotenv == InitDotenv /\ [][NextDotenv]_vars

InitFile ==
    FileInputs /\ MergeIdle /\ SetupIdle /\ CodecIdle /\ StoreIdle /\ ConcIdle /\ SyncIdle /\ ScanIdle /\ LocalIdle /\ GroupIdle /\ ProbeIdle /\ RegistryIdle /\ RefsIdle /\ PushIdle
NextFile == Parse
SpecFile == InitFile /\ [][NextFile]_vars

InitStore == StoreStart /\ MergeIdle /\ SetupIdle /\ CodecIdle /\ DotenvIdle /\ ConcIdle /\ SyncIdle /\ ScanIdle /\ LocalIdle /\ GroupIdle /\ ProbeIdle /\ RegistryIdle /\ RefsIdle /\ PushIdle
NextStore == Write \/ Read
SpecStore == InitStore /\ [][NextStore]_vars

InitConc ==
    /\ ConcStart /\ MergeIdle /\ SetupIdle /\ CodecIdle /\ DotenvIdle
    /\ StoreIdle /\ SyncIdle /\ ScanIdle /\ LocalIdle /\ GroupIdle /\ ProbeIdle /\ RegistryIdle /\ RefsIdle /\ PushIdle
NextConc == ClientStep
SpecConc == InitConc /\ [][NextConc]_vars

InitSync ==
    /\ SyncStart /\ MergeIdle /\ SetupIdle /\ CodecIdle /\ DotenvIdle
    /\ StoreIdle /\ ConcIdle /\ ScanIdle /\ LocalIdle /\ GroupIdle /\ ProbeIdle /\ RegistryIdle /\ RefsIdle /\ PushIdle
NextSync == syncCommand
SpecSync == InitSync /\ [][NextSync]_vars

InitList ==
    /\ ListStart /\ MergeIdle /\ SetupIdle /\ CodecIdle /\ DotenvIdle
    /\ ConcIdle /\ SyncIdle /\ ScanIdle /\ LocalIdle /\ GroupIdle /\ ProbeIdle /\ RegistryIdle /\ RefsIdle /\ PushIdle
NextList == List
SpecList == InitList /\ [][NextList]_vars

InitScan ==
    /\ ScanStart /\ MergeIdle /\ SetupIdle /\ CodecIdle /\ DotenvIdle
    /\ StoreIdle /\ ConcIdle /\ SyncIdle /\ LocalIdle /\ GroupIdle /\ ProbeIdle /\ RegistryIdle /\ RefsIdle /\ PushIdle
NextScan == Scan
SpecScan == InitScan /\ [][NextScan]_vars

InitLocal ==
    LocalStart /\ MergeIdle /\ SetupIdle /\ CodecIdle /\ DotenvIdle /\ StoreIdle /\ ConcIdle /\ SyncIdle /\ ScanIdle /\ GroupIdle /\ ProbeIdle /\ RegistryIdle /\ RefsIdle /\ PushIdle
NextLocal == WriteLocalEnv
SpecLocal == InitLocal /\ [][NextLocal]_vars

InitGroup ==
    GroupStart /\ MergeIdle /\ SetupIdle /\ CodecIdle /\ DotenvIdle /\ StoreIdle /\ ConcIdle /\ SyncIdle /\ ScanIdle /\ LocalIdle /\ ProbeIdle /\ RegistryIdle /\ RefsIdle /\ PushIdle
NextGroup == GuessProvider \/ GroupByProvider
SpecGroup == InitGroup /\ [][NextGroup]_vars

InitProbe ==
    ProbeStart /\ MergeIdle /\ SetupIdle /\ CodecIdle /\ DotenvIdle /\ StoreIdle /\ ConcIdle /\ SyncIdle /\ ScanIdle /\ LocalIdle /\ GroupIdle /\ RegistryIdle /\ RefsIdle /\ PushIdle
NextProbe == CheckStatus \/ IsAvailable
SpecProbe == InitProbe /\ [][NextProbe]_vars

InitRegistry ==
    RegistryStart /\ MergeIdle /\ SetupIdle /\ CodecIdle /\ DotenvIdle /\ StoreIdle /\ ConcIdle /\ SyncIdle /\ ScanIdle /\ LocalIdle /\ GroupIdle /\ ProbeIdle /\ RefsIdle /\ PushIdle
NextRegistry == GetBackend \/ ListBackends
SpecRegistry == InitRegistry /\ [][NextRegistry]_vars

InitRefs ==
    RefsStart /\ MergeIdle /\ SetupIdle /\ CodecIdle /\ DotenvIdle /\ StoreIdle /\ ConcIdle /\ SyncIdle /\ ScanIdle /\ LocalIdle /\ GroupIdle /\ ProbeIdle /\ RegistryIdle /\ PushIdle
NextRefs == BuildSecretRefMap
SpecRefs == InitRefs /\ [][NextRefs]_vars

InitPush ==
    PushStart /\ MergeIdle /\ SetupIdle /\ CodecIdle /\ DotenvIdle /\ StoreIdle /\ ConcIdle /\ SyncIdle /\ ScanIdle /\ LocalIdle /\ GroupIdle /\ ProbeIdle /\ RegistryIdle /\ RefsIdle
NextPush == PushCommand \/ HandlePush \/ HandleStore
SpecPush == InitPush /\ [][NextPush]_vars

-----------------------------------------------------------------------------
(* Claims about the setup command and mergeConfigs.                        *)

\* C1: once setup has run on a project whose shipkey.json named a backend, the
\* shipkey.json it wrote back names the same backend, and that backend is the
\* instance the server was given and the only one store operations ran on.
C1_SetupKeepsBackend ==
    (/\ setupPc # "start"
     /\ setupOriginal.present
     /\ "backend" \in DOMAIN setupOriginal.cfg)
    => /\ shipkeyJson.present
       /\ Get(shipkeyJson.cfg, "backend") = Some(setupOriginal.cfg.backend)
       /\ setupBackend = setupOriginal.cfg.backend
       /\ setupOps \subseteq {setupOriginal.cfg.backend}

\* C2: mergeConfigs(X, X) = X for every configuration X of the persisted schema.
C2_MergeSelfIsIdentity == mSelf.done => mSelf.v = mExisting

\* C3: mergeConfigs(mergeConfigs(A, B), B) = mergeConfigs(A, B) for all A and B.
C3_MergeTwiceIsMergeOnce == mTwice.done => mTwice.v = mOnce.v

-----------------------------------------------------------------------------
(* Claims about the encodings and the dotenv parser.                       *)

\* C4: parseFieldName(buildFieldName(ref)) is the ref's own (project, env, field)
\* or null, never another project, env or field.
C4_DecodeOwnRefOrNull ==
    cParsed.done => (cParsed.v = Null \/ cParsed.v = cRef)

\* A value wrapped in a matching pair of double or single quotes.
Wrapped(v) == Len(v) >= 2 /\ v[1] = v[Len(v)] /\ v[1] \in {"\"", "'"}

\* C10: the entry of the line KEY=value carries the trimmed value without its one
\* outer pair of matching quotes when it is wrapped in one, and the trimmed value
\* unchanged otherwise.
C10_StripsExactlyOneMatchingPair ==
    dParsed.done =>
        LET v == Trim(dValue)
        IN  dParsed.v = <<[key |-> EnvKey,
                           value |-> IF Wrapped(v) THEN SubSeq(v, 2, Len(v) - 1) ELSE v]>>

-----------------------------------------------------------------------------
(* Claims about the stores.                                                *)

\* C5: a write to ref r leaves read(r') as it was for every other ref r'.
C5_WriteChangesOnlyItsRef ==
    lastOp.kind = "write" =>
        \A r \in Refs \ {lastOp.ref} :
            ReadValue(backendName, store, r) = ReadValue(backendName, lastOp.before, r)

\* C7: after a write that completed, read(ref) returns the written value, and
\* writing the same entry again leaves the store as it is.
C7_WriteIsUpsert ==
    (lastOp.kind = "write" /\ lastOp.ok) =>
        /\ ReadValue(backendName, store, lastOp.ref) = Some(lastOp.value)
        /\ Run(backendName,
               write(backendName, [ref |-> lastOp.ref, value |-> lastOp.value]),
               store, 0).st = store

\* C8: whatever commands failed, a vault (folder) holds at most one item per
\* provider name, Bitwarden holds at most one folder per vault name, and an
\* item holds at most one field per field name.
C8_OneRecordPerProvider ==
    /\ \A i, j \in 1..Len(store.items) :
          (/\ store.items[i].container = store.items[j].container
           /\ store.items[i].name = store.items[j].name) => i = j
    /\ backendName = "bitwarden" =>
          \A i, j \in 1..Len(store.containers) :
              store.containers[i] = store.containers[j] => i = j
    /\ \A i \in 1..Len(store.items) :
          \A m, n \in 1..Len(store.items[i].fields) :
              store.items[i].fields[m].name = store.items[i].fields[n].name => m = n

\* C6: once two concurrent writes to different providers or different vaults
\* have completed, read returns the value of each write that returned, and
\* every value readable before them is still read.
C6_ConcurrentWritesIndependent ==
    (/\ \A c \in Clients : Finished(clients[c])
     /\ \/ clients[1].ref.provider # clients[2].ref.provider
        \/ clients[1].ref.vault # clients[2].ref.vault) =>
        /\ \A c \in Clients :
              clients[c].pc = "done" =>
                  ReadValue(concBackend, concStore, clients[c].ref) = Some(clients[c].value)
        /\ \A r \in ConcRefs \ {clients[c].ref : c \in Clients} :
              ReadValue(concBackend, concBefore, r) # Absent =>
                  ReadValue(concBackend, concStore, r) = ReadValue(concBackend, concBefore, r)

-----------------------------------------------------------------------------
(* Claims about the sync command.                                          *)

\* The names a destination configures: the plain names of a list, the keys
\* of a record.
ConfiguredNames(secretRefs) ==
    IF IsArray(secretRefs)
    THEN {e.text : e \in {x \in Range(secretRefs.items) : ~IsOpUri(x)}}
    ELSE DOMAIN secretRefs.map

\* C9: with the Bitwarden backend, whose buildInlineRef returns null, sync
\* hands to the target every configured field that a provider lists and that
\* is stored, with the value backend.read gives at the ref derived from
\* shipkey.json, and reports none of them as failed.
C9_SyncReadsWithoutInlineRef ==
    (syncPc = "done" /\ syncReport.backend = "bitwarden") =>
        \A t \in DOMAIN syncReport.targets :
            \A d \in DOMAIN syncConfig.targets[t] :
                \A f \in ConfiguredNames(syncConfig.targets[t][d]) :
                    LET listed == "providers" \in DOMAIN syncConfig
                                  /\ ProviderOf(f) \in DOMAIN syncConfig.providers
                        value == ReadValue("bitwarden", syncStore,
                                     RefOf(syncConfig, ProviderOf(f), f, Prod))
                        up == syncReport.targets[t].totalSynced
                              + syncReport.targets[t].totalFailed > 0
                    IN  (listed /\ value # Absent) =>
                            /\ [target |-> t, destination |-> d, name |-> Name(f)]
                                   \notin syncReport.targets[t].unresolved
                            /\ up => [target |-> t, destination |-> d, name |-> Name(f),
                                      value |-> value.v] \in syncReport.targets[t].handed

-----------------------------------------------------------------------------
(* Claims about the scanner.                                               *)

\* The files of a scan result, whatever their group.
ScannedFiles(result) ==
    UNION {Range(result.groups[g].files) : g \in 1..Len(result.groups)}

\* C11: a scanned file is marked as a template, and all its variables carry
\* no value, exactly when the file's name contains ".example" or ".template";
\* any other file is not marked and its variables carry the parsed values.
C11_TemplateIffNamedSo ==
    (scanOut.done /\ ~scanOut.v.raised) =>
        \A f \in ScannedFiles(scanOut.v) :
            LET named == isTemplate(basename(f.path))
                parsed == parseDotenv(ContentOf(basename(f.path)))
            IN  /\ f.isTemplate = named
                /\ Len(f.vars) = Len(parsed)
                /\ \A i \in 1..Len(f.vars) :
                      /\ f.vars[i].isTemplate = named
                      /\ f.vars[i].value =
                            IF named THEN Absent ELSE Some(parsed[i].value)

\* C12: scan returns a result, never an error, also when the root, a
\* subdirectory or a matched env file is missing or unreadable.
C12_ScanNeverRaises == scanOut.done => ~scanOut.v.raised

\* The paths of the files of a tree that lie below no directory named in the
\* skip set, with their names.
RECURSIVE FilesOutsideSkipped(_, _)
FilesOutsideSkipped(node, dir) ==
    UNION {LET entry == node.entries[k]
               path == JoinPath(dir, entry.name)
           IN  IF entry.kind = "file" THEN {[path |-> path, name |-> entry.name]}
               ELSE IF entry.name \in SKIP_DIRS THEN {}
               ELSE FilesOutsideSkipped(entry, path) :
           k \in 1..Len(node.entries)}

ScannedPaths(result) == {f.path : f \in ScannedFiles(result)}

\* C13: a file named .env, .env.local, .env.example, .dev.vars or .envrc
\* that lies outside the skipped directories appears in the scan result.
C13_RecognisesDocumentedNames ==
    (scanOut.done /\ ~scanOut.v.raised) =>
        \A f \in FilesOutsideSkipped(scanTree, <<>>) :
            f.name \in {DotEnv, EnvLocal, EnvExample, DotDevVars, Envrc} =>
                f.path \in ScannedPaths(scanOut.v)

\* A name that is `prefix` or `prefix.<suffix>` with a suffix that is not empty.
NamedLike(name, prefix) ==
    \/ name = prefix
    \/ \E n \in 1..Len(name) :
          name = prefix \o <<".">> \o SubSeq(name, Len(name) - n + 1, Len(name))

RECURSIVE VarCount(_)
VarCount(files) ==
    IF files = {} THEN 0
    ELSE LET f == CHOOSE x \in files : TRUE IN Len(f.vars) + VarCount(files \ {f})

-----------------------------------------------------------------------------
(* Claims about list.                                                      *)

\* The attributes stored in the vault, as <<item, field>> positions.
VaultAttributes(st, vault) ==
    {<<i, k>> \in (1..Len(st.items)) \X (1..2) :
        /\ k <= Len(st.items[i].fields)
        /\ st.containers[st.items[i].container] = vault}

\* The ref an attribute decodes to, with the vault and the item's name.
DecodedRef(st, vault, at) ==
    LET parsed == parseFieldName(st.items[at[1]].fields[at[2]].name)
    IN  [vault |-> vault, provider |-> st.items[at[1]].name, project |-> parsed.project,
         env |-> parsed.env, field |-> parsed.field]

\* The attributes of the vault that decode and pass the filters of the request.
Matching(st, vault, project, env) ==
    {at \in VaultAttributes(st, vault) :
        LET parsed == parseFieldName(st.items[at[1]].fields[at[2]].name)
        IN  /\ parsed # Null
            /\ project.has => parsed.project = project.v
            /\ env.has => parsed.env = env.v}

\* C15: when nothing matches the request, also when the vault does not
\* exist, is empty or holds foreign records only, list returns the empty
\* sequence and no error, in both backends.
C15_ListEmptyWhenNothingMatches ==
    (lastOp.kind = "list"
     /\ Matching(store, lastOp.vault, lastOp.project, lastOp.env) = {}) =>
        lastOp.out = [ok |-> TRUE, value |-> <<>>]

\* C16: list returns exactly one ref per stored attribute that decodes and
\* whose decoded project and env equal the ones given, an absent filter
\* matching every value; attributes that do not decode are left out.
C16_ListOneRefPerMatchingAttribute ==
    (lastOp.kind = "list" /\ lastOp.out.ok) =>
        LET refs == lastOp.out.value
            matching == Matching(store, lastOp.vault, lastOp.project, lastOp.env)
        IN  /\ Len(refs) = Cardinality(matching)
            /\ \A at \in matching :
                  Cardinality({n \in 1..Len(refs) : refs[n] = DecodedRef(store, lastOp.vault, at)})
                  = Cardinality({other \in matching :
                        DecodedRef(store, lastOp.vault, other)
                        = DecodedRef(store, lastOp.vault, at)})

\* The lines of a file's content, as split("\n") gives them, without the
\* empty last element a final newline leaves.
LinesOf(content) ==
    LET lines == IF content = <<>> THEN <<>> ELSE Split(content, NL)
    IN  IF lines # <<>> /\ lines[Len(lines)] = <<>>
        THEN SubSeq(lines, 1, Len(lines) - 1) ELSE lines

GivenKeyLine(line, entries) ==
    \E k \in 1..Len(entries) : StartsWithText(line, entries[k].key \o <<"=">>)

\* before and after are the target file's contents around one writeLocalEnv.
UpsertedInto(before, after, entries) ==
    LET old == LinesOf(before)
        new == LinesOf(after)
    IN  /\ Len(new) >= Len(old)
        /\ \A k \in 1..Len(entries) :
              LET at == FindLine(old, entries[k].key)
                  newLine == entries[k].key \o <<"=">> \o entries[k].value
              IN  IF at # 0 THEN new[at] = newLine
                  ELSE \E i \in (Len(old) + 1)..Len(new) : new[i] = newLine
        /\ \A i \in 1..Len(old) :
              ~GivenKeyLine(old[i], entries) => new[i] = old[i]

\* C17: writeLocalEnv is an idempotent upsert. After a run, every given key
\* that had a `KEY=` line has that line replaced in place, every new key's
\* line is appended after the old lines, every line that starts with none of
\* the given keys followed by "=" is where and what it was, no other file is
\* touched; and a second run with the same map leaves the file as the first
\* run left it.
C17_WriteLocalEnvIdempotentUpsert ==
    /\ \A r \in 1..Len(localRuns) :
          LET after == IF r = Len(localRuns) THEN localFiles ELSE localRuns[r + 1]
              target == envFile(localWrangler)
          IN  /\ after[target].has
              /\ UpsertedInto(ReadOrEmpty(localRuns[r], target), after[target].v,
                              localEnvVars)
              /\ \A name \in EnvFileNames \ {target} : after[name] = localRuns[r][name]
    /\ Len(localRuns) = 2 => localFiles = localRuns[2]

-----------------------------------------------------------------------------
(* Claims about what mergeConfigs does to providers and targets.           *)

\* config.providers || {}
ProvidersOf(config) == IF "providers" \in DOMAIN config THEN config.providers ELSE EmptyMap

\* config.targets?.[key] || {}
TargetOf(config, key) ==
    IF "targets" \in DOMAIN config /\ key \in DOMAIN config.targets
    THEN config.targets[key] ELSE EmptyMap

NoRepeat(s) == \A i, j \in 1..Len(s) : i # j => s[i] # s[j]

\* names holds every element of a and of b, each exactly once, and nothing else.
UnionOnce(names, a, b) == NoRepeat(names) /\ Range(names) = Range(a) \cup Range(b)

\* A text or list property that is present and not empty, else Absent.
NonEmptyText(o) == IF o.has /\ o.v # "" THEN o ELSE Absent
NonEmptyList(o) == IF o.has /\ o.v # <<>> THEN o ELSE Absent

\* The providers of `merged` are those of `existing` and `scanned` merged per
\* name; guideOf and permsOf say which guide and permissions a provider of
\* both sides must carry, given the property of existing or of the scan.
ProvidersMerged(existing, scanned, merged, guideOf(_), permsOf(_)) ==
    LET ex == ProvidersOf(existing)
        sc == ProvidersOf(scanned)
        out == ProvidersOf(merged)
    IN  /\ DOMAIN out = DOMAIN ex \cup DOMAIN sc
        /\ \A name \in DOMAIN out :
              IF name \in DOMAIN ex /\ name \in DOMAIN sc
              THEN /\ UnionOnce(out[name].fields, ex[name].fields, sc[name].fields)
                   /\ Get(out[name], "guide") = guideOf(Get(ex[name], "guide"))
                   /\ Get(out[name], "guide_url") = guideOf(Get(ex[name], "guide_url"))
                   /\ Get(out[name], "permissions") = permsOf(Get(sc[name], "permissions"))
              ELSE IF name \in DOMAIN ex THEN out[name] = ex[name]
              ELSE out[name] = sc[name]

Same(o) == o

C19_TargetsMergedPerDestination ==
    mOnce.done =>
        \A i \in 1..Len(TargetKeys) :
            LET e == TargetOf(mExisting, TargetKeys[i])
                s == TargetOf(mScanned, TargetKeys[i])
                out == TargetOf(mOnce.v, TargetKeys[i])
            IN  /\ DOMAIN out = DOMAIN e \cup DOMAIN s
                /\ \A dest \in DOMAIN out :
                      IF dest \in DOMAIN e /\ dest \in DOMAIN s
                      THEN IF IsArray(e[dest]) /\ IsArray(s[dest])
                           THEN /\ IsArray(out[dest])
                                /\ UnionOnce(out[dest].items, e[dest].items, s[dest].items)
                           ELSE ~IsArray(e[dest]) => out[dest] = e[dest]
                      ELSE IF dest \in DOMAIN e THEN out[dest] = e[dest]
                      ELSE out[dest] = s[dest]

\* A merge where github's owner/repo holds a map in existing and a list in
\* the scan.
C19_MapKeptOverScannedList ==
    /\ mOnce.done
    /\ "owner/repo" \in DOMAIN TargetOf(mExisting, "github")
    /\ "owner/repo" \in DOMAIN TargetOf(mScanned, "github")
    /\ ~IsArray(TargetOf(mExisting, "github")["owner/repo"])
    /\ IsArray(TargetOf(mScanned, "github")["owner/repo"])
    /\ TargetOf(mScanned, "github")["owner/repo"].items # <<>>

\* The scan carries no providers and no targets: each is absent or empty.
ScanCarriesNothing(scanned) ==
    /\ ProvidersOf(scanned) = EmptyMap
    /\ \A i \in 1..Len(TargetKeys) : TargetOf(scanned, TargetKeys[i]) = EmptyMap

C21_IdentityFromExisting ==
    /\ mOnce.done =>
          mOnce.v.project = mExisting.project /\ mOnce.v.vault = mExisting.vault
    /\ mTwice.done =>
          mTwice.v.project = mExisting.project /\ mTwice.v.vault = mExisting.vault

\* A merge of a scan that reports another project name and another vault.
C21_ScanOfOtherIdentityMerged ==
    /\ mOnce.done
    /\ mScanned.project # mExisting.project
    /\ mScanned.vault # mExisting.vault
    /\ ProvidersOf(mScanned) # EmptyMap
    /\ mOnce.v.project = "app"

-----------------------------------------------------------------------------
(* Claims about the provider registry.                                     *)

\* The rules that match a key, by a pattern compared without regard to case.
MatchingRules(key) ==
    {i \in 1..Len(PROVIDERS) :
        \E k \in 1..Len(PROVIDERS[i].patterns) :
            LET p == PROVIDERS[i].patterns[k]
                folded == FoldCase(key)
            IN  \E from \in 1..(IF p.at = "start" THEN 1 ELSE Len(folded)) :
                    /\ from + Len(p.text) - 1 <= Len(folded)
                    /\ SubSeq(folded, from, from + Len(p.text) - 1) = p.text}

FirstRuleName(key) ==
    IF MatchingRules(key) = {} THEN "General"
    ELSE PROVIDERS[CHOOSE i \in MatchingRules(key) : \A j \in MatchingRules(key) : i <= j].name

\* The rule of the table with a name, if any.
RuleNamed(providerName) ==
    IF \E i \in 1..Len(PROVIDERS) : PROVIDERS[i].name = providerName
    THEN Some(CHOOSE r \in Range(PROVIDERS) : r.name = providerName)
    ELSE Absent

\* The guide property of a provider entry is the one of its rule.
GuideFromTable(entry, providerName, property) ==
    Get(entry, property)
        = (IF RuleNamed(providerName).has THEN RuleNamed(providerName).v[property] ELSE Absent)

RECURSIVE KeysOf(_, _)
KeysOf(keys, providerName) ==
    IF keys = <<>> THEN <<>>
    ELSE (IF FirstRuleName(keys[1]) = providerName THEN <<keys[1]>> ELSE <<>>)
            \o KeysOf(Tail(keys), providerName)

\* C22: guessProvider(key) is the name of the first rule of the table with a
\* pattern matching the key without regard to case, and "General" when none
\* matches; groupByProvider puts every key, in input order, in the field list
\* of exactly that provider, with the guide data of the rule table.
C22_FirstMatchingRuleAndGroups ==
    /\ gGuess.done =>
          \A i \in 1..Len(gKeys) : gGuess.v[i] = FirstRuleName(gKeys[i])
    /\ gGroups.done =>
          /\ DOMAIN gGroups.v = {FirstRuleName(gKeys[i]) : i \in 1..Len(gKeys)}
          /\ \A name \in DOMAIN gGroups.v :
                /\ gGroups.v[name].fields = KeysOf(gKeys, name)
                /\ GuideFromTable(gGroups.v[name], name, "guide_url")
                /\ GuideFromTable(gGroups.v[name], name, "guide")

\* Keys of Stripe in upper and lower case around a key of no rule, guessed
\* and grouped: Stripe holds its two keys in input order with its guide,
\* General holds the other without one.
C22_StripeAndGeneralGrouped ==
    /\ gGuess.done /\ gGroups.done
    /\ gKeys = <<<<"S", "T", "R", "I", "P", "E", "_", "S", "E", "C", "R", "E", "T", "_", "K", "E", "Y">>,
                 <<"F", "O", "O", "_", "B", "A", "R">>,
                 <<"s", "t", "r", "i", "p", "e", "_", "k", "e", "y">>>>
    /\ gGuess.v = <<"Stripe", "General", "Stripe">>
    /\ Len(gGroups.v["Stripe"].fields) = 2
    /\ gGroups.v["Stripe"].guide_url = "https://dashboard.stripe.com/apikeys"
    /\ "guide" \notin DOMAIN gGroups.v["General"]

-----------------------------------------------------------------------------
(* Claims about decoding an attribute name.                                *)

\* The text before the first "." of a name that has one.
SectionOf(name) ==
    SubSeq(name, 1, (CHOOSE i \in 1..Len(name) :
                        name[i] = "." /\ \A j \in 1..(i - 1) : name[j] # ".") - 1)

\* C23: parseFieldName(name) is null exactly when name has no "." or the part
\* before its first "." has no "-"; otherwise project, "-", env, ".", field
\* put together are the name, with no "." in project or env (the split is at
\* the first ".") and no "-" in env (the section is split at its last "-").
C23_ParseFieldName ==
    cParsed.done =>
        LET name == cName.v
            parsed == cParsed.v
        IN  IF "." \notin Range(name) \/ "-" \notin Range(SectionOf(name))
            THEN parsed = Null
            ELSE /\ parsed # Null
                 /\ parsed.project \o <<"-">> \o parsed.env \o <<".">> \o parsed.field = name
                 /\ "." \notin Range(parsed.project) \cup Range(parsed.env)
                 /\ "-" \notin Range(parsed.env)

\* The name "a-a-a.a" decoded: project "a-a", env "a", field "a".
C23_TwoDashesTwoDotsDecoded ==
    /\ cParsed.done
    /\ cName.v = <<"a", "-", "a", "-", "a", ".", "a">>
    /\ cParsed.v = [project |-> <<"a", "-", "a">>, env |-> <<"a">>, field |-> <<"a">>]

-----------------------------------------------------------------------------
(* Claims about parseDotenv on whole files.                                *)

\* A line that yields an entry: trimmed, it is not empty, does not start with
\* "#" and contains "=".
IsEntryLine(line) ==
    LET t == Trim(line) IN t # <<>> /\ t[1] # "#" /\ "=" \in Range(t)

\* The trimmed texts before and after the first "=" of an entry line.
KeyText(line) == Trim(Before(Trim(line), IndexOf(Trim(line), "=")))
ValueText(line) == Trim(After(Trim(line), IndexOf(Trim(line), "=")))

\* A value without its first and last character when it starts with a quote
\* character and ends with the same one.
Unquoted(v) ==
    IF v # <<>> /\ v[1] \in {"\"", "'"} /\ v[Len(v)] = v[1]
    THEN SubSeq(v, 2, Len(v) - 1) ELSE v

\* The entry lines among lines, in line order.
RECURSIVE EntryLines(_)
EntryLines(lines) ==
    IF lines = <<>> THEN <<>>
    ELSE (IF IsEntryLine(lines[1]) THEN <<lines[1]>> ELSE <<>>) \o EntryLines(Tail(lines))

\* One entry per entry line, in line order, with the value valueOf gives.
EntriesOf(lines, valueOf(_)) ==
    [i \in 1..Len(EntryLines(lines)) |->
        [key |-> KeyText(EntryLines(lines)[i]),
         value |-> valueOf(ValueText(EntryLines(lines)[i]))]]

-----------------------------------------------------------------------------
(* Claims about the status probe.                                          *)

\* The authentication probe fails, or reports no account (1Password) or an
\* unauthenticated or locked vault (Bitwarden).
AuthProbeSaysNo(backend, auth) ==
    \/ auth.exit # 0
    \/ auth.output = NotJson
    \/ backend = "1password" /\ auth.output.value = Arr(<<>>)
    \/ backend = "bitwarden"
        /\ auth.output.value \in {Obj([status |-> "unauthenticated"]), Obj([status |-> "locked"])}

\* C25: checkStatus returns not_installed exactly when the version probe
\* fails, and then runs no authentication probe; otherwise it runs the
\* authentication probe after the version probe and returns not_logged_in
\* exactly when that probe fails or reports no account, or an unauthenticated
\* or locked vault; otherwise ready. isAvailable is true exactly when
\* checkStatus returns ready.
C25_StatusProbeInOrder ==
    /\ pStatus.done =>
          IF pCli.version.exit # 0
          THEN pStatus.v = [status |-> "not_installed", ran |-> <<"--version">>]
          ELSE /\ pStatus.v.ran = <<"--version", AuthCommand(pBackend)>>
               /\ pStatus.v.status =
                     (IF AuthProbeSaysNo(pBackend, pCli.auth) THEN "not_logged_in" ELSE "ready")
    /\ pAvailable.done =>
          pAvailable.v.available
              = (pCli.version.exit = 0 /\ ~AuthProbeSaysNo(pBackend, pCli.auth))
    /\ pStatus.done /\ pAvailable.done =>
          pAvailable.v.available = (pStatus.v.status = "ready")

\* Bitwarden installed with a locked vault, probed both ways: not_logged_in
\* after two commands, and not available.
C25_LockedVaultProbed ==
    /\ pStatus.done /\ pAvailable.done
    /\ pBackend = "bitwarden"
    /\ pCli.version.exit = 0
    /\ pCli.auth = Exited(0, Json(Obj([status |-> "locked"])))
    /\ pStatus.v.status = "not_logged_in"
    /\ Len(pStatus.v.ran) = 2
    /\ ~pAvailable.v.available

-----------------------------------------------------------------------------
(* Claims about the backend registry.                                      *)

\* C26: getBackend gives the 1Password backend for "1password" and for no
\* name, the Bitwarden backend for "bitwarden", and for every other name the
\* "Unknown backend" error with the list of valid names; listBackends gives
\* exactly those two names.
C26_GetBackendOrUnknown ==
    /\ \A i \in 1..Len(bCalls) :
          LET name == bCalls[i].name
              out == bCalls[i].out
          IN  IF name \in {Absent, Some("1password")}
              THEN out = [ok |-> TRUE, backend |-> "1password"]
              ELSE IF name = Some("bitwarden")
              THEN out = [ok |-> TRUE, backend |-> "bitwarden"]
              ELSE out = [ok |-> FALSE, error |-> "Unknown backend",
                          available |-> <<"1password", "bitwarden">>]
    /\ bListed.done => Range(bListed.v) = {"1password", "bitwarden"} /\ Len(bListed.v) = 2

-----------------------------------------------------------------------------
(* Claims about the map of inline references.                              *)

\* The fields a provider of the configuration lists.
ListedBy(config, providerName) ==
    IF "providers" \in DOMAIN config /\ providerName \in DOMAIN config.providers
    THEN Range(config.providers[providerName].fields) ELSE {}
AllListed(config) ==
    UNION {ListedBy(config, n) : n \in Range(ProviderOrder)}

\* C27: buildSecretRefMap(config, backend, env) holds an entry for every
\* field of every provider in config and for no other key; with the
\* 1Password backend the entry is the URI op://{vault}/{provider}/
\* {project}-{env}/{field} built from a provider that lists the field, and
\* with the Bitwarden backend every entry is null.
C27_EntryPerListedField ==
    rMap.done =>
       LET env == IF rEnv.has THEN rEnv.v ELSE Prod
       IN  /\ DOMAIN rMap.v = AllListed(rConfig)
           /\ \A f \in DOMAIN rMap.v :
                 IF rBackend = "bitwarden" THEN rMap.v[f] = Null
                 ELSE \E n \in Range(ProviderOrder) :
                         /\ f \in ListedBy(rConfig, n)
                         /\ rMap.v[f] = [vault |-> rConfig.vault, item |-> n,
                                         section |-> rConfig.project \o <<"-">> \o env,
                                         field |-> f]

\* The map of the 1Password backend for a configuration of two providers,
\* computed with the default environment.
C27_TwoProvidersMapped ==
    /\ rMap.done
    /\ rBackend = "1password"
    /\ rEnv = Absent
    /\ DOMAIN rMap.v = {<<"K">>, <<"T">>}
    /\ rMap.v[<<"T">>].item = "Stripe"
    /\ rMap.v[<<"K">>].item = "OpenAI"
    /\ rMap.v[<<"K">>].section = rConfig.project \o <<"-", "p", "r", "o", "d">>

-----------------------------------------------------------------------------
(* Claims about reads and bulk writes.                                     *)

\* C29: a read never modifies the store: its folders, records and
\* attributes are the same after the read as before it, whether the read
\* returns a value or throws.
C29_ReadLeavesStore == lastOp.kind = "read" => store = lastOp.before

\* Every variable the scan found, in scan order, with the file it is from.
RECURSIVE VarsOfFiles(_)
VarsOfFiles(files) ==
    IF Len(files) = 0 THEN <<>> ELSE Head(files).vars \o VarsOfFiles(Tail(files))
RECURSIVE ScanOrder(_)
ScanOrder(groups) ==
    IF Len(groups) = 0 THEN <<>>
    ELSE VarsOfFiles(Head(groups).files) \o ScanOrder(Tail(groups))
FromRealFile(v) ==
    /\ ~isTemplate(basename(v.source))
    /\ v.value.has
    /\ v.value.v # <<>>
\* s[i..] is t[j..] without some of its elements.
RECURSIVE IsSubSeqFrom(_, _, _, _)
IsSubSeqFrom(s, i, t, j) ==
    IF i > Len(s) THEN TRUE
    ELSE IF j > Len(t) THEN FALSE
    ELSE IF s[i].key = t[j].key /\ s[i].value = t[j].value.v
    THEN IsSubSeqFrom(s, i + 1, t, j + 1)
    ELSE IsSubSeqFrom(s, i, t, j + 1)

\* C28: every collected entry is attempted exactly once, in scan order; a
\* write that throws is reported as an error for that entry only and the
\* entries after it are attempted all the same; no value of a template file
\* and no empty value is written.
C28_EveryEntryAttemptedOnce ==
    pushOut.handler # "none" =>
       /\ Len(pushOut.attempts) = Len(pushOut.collected)
       /\ Len(pushOut.reports) = Len(pushOut.collected)
       /\ \A k \in 1..Len(pushOut.collected) :
             /\ pushOut.attempts[k].ref.field = pushOut.collected[k].key
             /\ pushOut.attempts[k].value = pushOut.collected[k].value
             /\ pushOut.reports[k].field = pushOut.collected[k].key
             /\ pushOut.reports[k].status
                   = (IF pushOut.attempts[k].ok THEN "ok" ELSE "error")
             /\ pushOut.attempts[k].value # <<>>
       /\ pushOut.handler \in {"push", "handlePush"} /\ pushOut.exit \in {0, 200} =>
             LET found == ScanOrder(scan(pushDir.tree).groups)
             IN  /\ IsSubSeqFrom(pushOut.collected, 1, SelectSeq(found, FromRealFile), 1)
                 /\ \A k \in 1..Len(pushOut.attempts) :
                       \E i \in 1..Len(found) :
                          /\ FromRealFile(found[i])
                          /\ found[i].key = pushOut.attempts[k].ref.field
                          /\ found[i].value.v = pushOut.attempts[k].value

\* A push of a directory with a template file in which the first write
\* throws and the two after it are made.
C28_FirstWriteFailedRestWritten ==
    /\ pushOut.handler = "push"
    /\ Len(pushOut.attempts) >= 3
    /\ ~pushOut.attempts[1].ok
    /\ pushOut.attempts[2].ok
    /\ pushOut.attempts[3].ok
    /\ pushOut.reports[1].status = "error"
    /\ \E i \in 1..Len(pushDir.tree.entries) : pushDir.tree.entries[i].name = EnvExample

-----------------------------------------------------------------------------
(* Claims that relate push to the commands that read.                      *)

\* C30: every field push writes goes to the ref that sync, the status check
\* and list derive from the project's shipkey.json for the same environment:
\* its vault, its project name and the provider under which it lists the
\* field.
C30_PushWritesWhereConfigPoints ==
    pushOut.handler \in {"push", "handlePush"} /\ pushJson.has =>
       \A k \in 1..Len(pushOut.attempts) :
          \A n \in DOMAIN ProvidersOf(pushJson.v) :
             LET written == pushOut.attempts[k].ref
             IN  written.field \in Range(pushJson.v.providers[n].fields) =>
                    written = RefOf(pushJson.v, n, written.field, pushOut.base.env)

====
